---- MODULE Spec2Model ----
(***************************************************************************)
(* State-machine model of the marketplace backend (FastAPI + MongoDB):     *)
(* orders and their fulfillment/payment status, shipments, carts and       *)
(* checkout, payment attempts and gateway webhooks, in-app notifications,  *)
(* and the legacy password-reset flow.                                     *)
(*                                                                         *)
(* Every HTTP handler is one action that performs the whole handler,       *)
(* except where a claim is about interleaved requests: those handlers are  *)
(* split at their database round trips (see the reset-password section).   *)
(* resp records the outcome of the last handler: its name, the caller,     *)
(* the target id and the HTTP status code.                                 *)
(***************************************************************************)
EXTENDS Integers, Sequences, FiniteSets, TLC

VARIABLES
    users,          \* users collection: id -> [role, is_active, hashed_password]
    orders,         \* orders collection: sequence of order documents, _id = index
    shipments,      \* shipments collection: sequence of shipment documents
    notifications,  \* notifications collection: sequence of rows, in insertion order
    prefs,          \* notification_preferences collection: set of rows
    addresses,      \* addresses collection: set of [id, user_id, is_default]
    products,       \* products collection: id -> product document
    inventory_logs, \* inventory_logs collection: sequence of log rows
    carts,          \* carts collection: user_id -> cart document, for those who have one
    item_seq,       \* number of ObjectIds minted so far for cart lines
    payments,       \* payments collection: sequence of payment records
    password_reset_tokens,  \* password_reset_tokens collection: sequence of rows
    clock,          \* utcnow(), in minutes
    requests,       \* the requests in flight: id -> position and locals
    favorites,      \* favorites collection: set of favorite documents
    sellers,        \* sellers collection: sequence of seller records, _id = index
    categories,     \* categories collection: sequence of category documents
    threads,        \* chat_threads collection: sequence of thread documents, _id = index
    messages,       \* chat_messages collection: sequence of message documents
    sessions,       \* realtime connections: sid -> session saved at connect
    rooms,          \* Socket.IO room membership: set of [namespace, room, sid]
    events,         \* events delivered to connections, in order of emission
    resp            \* outcome of the last handler

vars == <<users, orders, shipments, notifications, prefs, addresses, products,
          inventory_logs, carts, item_seq, payments, password_reset_tokens,
          clock, requests, favorites, sellers, categories, threads, messages,
          sessions, rooms, events, resp>>

\* the collections no order, refund or shipping route writes
catalogVars == <<addresses, products, inventory_logs, carts, item_seq>>
\* the collection only the payment routes write
payVars == <<payments>>
\* the state only the password-reset routes write
authVars == <<password_reset_tokens, clock, requests>>
\* the collections only the favorite, seller and category routes write
shopVars == <<favorites, sellers, categories>>
\* the chat collections and the state of the realtime gateway
chatVars == <<threads, messages, sessions, rooms, events>>

-----------------------------------------------------------------------------
(* Bounds of the model *)

\* longest order timeline the model lets grow
MaxTimeline == 3
\* longest shipment status_history the model lets grow
MaxHistory == 2
\* largest quantity of a cart line and of an add/update request
MaxQuantity == 2
\* number of cart lines ever created
MaxItemIds == 2
\* number of orders checkout creates
MaxOrders == 1
\* number of payment attempts initiated
MaxPayments == 2
\* number of forgot-password and reset-password requests
MaxRequests == 3
\* number of times the clock jumps past a token's lifetime
MaxTicks == 1
\* number of categories created
MaxCategories == 3
\* number of products created besides the seeded ones
MaxProducts == 1
\* number of seller records
MaxSellers == 2
\* highest stock an adjustment may reach
MaxStock == 2
\* number of inventory log rows
MaxLogs == 3
\* number of chat messages
MaxMessages == 2

-----------------------------------------------------------------------------
(* Values *)

None == "none"
Anon == "anon"

BuyerIds == {"b1", "b2"}
SellerIds == {"s1", "s2"}
AdminIds == {"adm"}
UserIds == BuyerIds \cup SellerIds \cup AdminIds
Actors == UserIds \cup {Anon}

\* HTTP status codes raised by the handlers
OK == 200
Created == 201
InvalidInput == 400
Unauthorized == 401
Forbidden == 403
NotFound == 404
\* the answer to a body that fails the declared schema
Unprocessable == 422
Internal == 500

SeedUsers ==
    [u \in UserIds |->
        [role |-> IF u \in BuyerIds THEN "buyer"
                  ELSE IF u \in SellerIds THEN "seller" ELSE "admin",
         is_active |-> TRUE,
         hashed_password |-> 0]]

Resp(op, actor, target, code) ==
    [op |-> op, actor |-> actor, target |-> target, code |-> code]

NoResp == Resp("init", None, 0, OK)

\* payload.note of OrderStatusUpdateRequest: absent or given
NoteInputs == {None, "custom note"}
\* note of ShippingCreateRequest, ShippingStatusUpdateRequest and the webhook body
ShippingNoteInputs == {None}

\* no realtime connection
NoSessions == [sid \in {} |-> [user_id |-> "none", role |-> "none"]]
\* no request in flight
NoRequests == [r \in {} |-> [pc |-> "done"]]
RequestIds == DOMAIN requests
\* the id of the next request to arrive, while one may still arrive
FreeRequestIds == {r \in 1..MaxRequests : r = Cardinality(RequestIds) + 1}

OrElse(value, default) == IF value = None THEN default ELSE value

-----------------------------------------------------------------------------
(* users/dependencies.py: authentication guards *)

get_current_user_mutant(actor) ==
    IF actor = Anon THEN Unauthorized ELSE OK

get_current_user(actor) ==
    IF actor = Anon THEN Unauthorized
    ELSE IF ~users[actor].is_active THEN Forbidden
    ELSE OK

require_roles(roles, actor) ==
    IF get_current_user(actor) # OK THEN get_current_user(actor)
    ELSE IF users[actor].role \notin roles THEN Forbidden
    ELSE OK

require_admin(actor) ==
    IF get_current_user(actor) # OK THEN get_current_user(actor)
    ELSE IF users[actor].role # "admin" THEN Forbidden
    ELSE OK

require_seller(actor) == require_roles({"seller", "admin"}, actor)

require_buyer(actor) == require_roles({"buyer"}, actor)

-----------------------------------------------------------------------------
(* notifications/service.py *)

DEFAULT_CHANNEL == "in_app"
DEFAULT_EVENT_ALL == "__all__"

PrefRows(user_id, event_type, channel) ==
    {p \in prefs : /\ p.user_id = user_id
                   /\ p.event_type = event_type
                   /\ p.channel = channel}

should_send_notification_mutant(user_id, event_type, channel) ==
    IF PrefRows(user_id, DEFAULT_EVENT_ALL, channel) # {}
    THEN \A p \in PrefRows(user_id, DEFAULT_EVENT_ALL, channel) : p.enabled
    ELSE IF PrefRows(user_id, event_type, channel) # {}
    THEN \A p \in PrefRows(user_id, event_type, channel) : p.enabled
    ELSE TRUE

\* _should_send_notification: the exact row, else the wildcard row, else enabled
should_send_notification(user_id, event_type, channel) ==
    IF PrefRows(user_id, event_type, channel) # {}
    THEN \A p \in PrefRows(user_id, event_type, channel) : p.enabled
    ELSE IF PrefRows(user_id, DEFAULT_EVENT_ALL, channel) # {}
    THEN \A p \in PrefRows(user_id, DEFAULT_EVENT_ALL, channel) : p.enabled
    ELSE TRUE

\* the notifications collection ns after create_notification(user, type, order)
create_notification(ns, user_id, notification_type, order_id) ==
    IF should_send_notification(user_id, notification_type, DEFAULT_CHANNEL)
    THEN Append(ns, [user_id |-> user_id, type |-> notification_type,
                     order_id |-> order_id, is_read |-> FALSE])
    ELSE ns

ALLOWED_CHANNELS == {"in_app", "email", "push"}
\* event_type and channel of NotificationPreferenceUpdateRequest
EventInputs == {"order_created", DEFAULT_EVENT_ALL}
ChannelInputs == {"in_app", "email", "fax"}

\* upsert_preference: the row of this key is replaced or inserted
upsert_preference(ps, user_id, event_type, channel, enabled) ==
    {p \in ps : ~(/\ p.user_id = user_id
                  /\ p.event_type = event_type
                  /\ p.channel = channel)}
    \cup {[user_id |-> user_id, event_type |-> event_type,
           channel |-> channel, enabled |-> enabled]}

update_preference_code(actor, channel) ==
    IF get_current_user(actor) # OK THEN get_current_user(actor)
    ELSE IF channel \notin ALLOWED_CHANNELS THEN InvalidInput
    ELSE OK

\* PUT /notifications/preferences
update_preference(actor, event_type, channel, enabled) ==
    LET code == update_preference_code(actor, channel) IN
    /\ resp' = Resp("update_preference", actor, 0, code)
    /\ prefs' = IF code = OK
                THEN upsert_preference(prefs, actor, event_type, channel, enabled)
                ELSE prefs
    /\ UNCHANGED <<chatVars, shopVars, catalogVars, payVars, authVars, users, orders,
                   shipments, notifications>>

-----------------------------------------------------------------------------
(* orders/service.py *)

OrderIds == 1..Len(orders)
\* ids a request may name: every stored order and one id that matches none
OrderIdInputs == 1..(Len(orders) + 1)

TimelineEntry(status, note, actor_id) ==
    [status |-> status, note |-> note, actor_id |-> actor_id]

\* the order document create_order_from_cart inserts
NewOrder(buyer_id, seller_id, items, total, code) ==
    [buyer_id |-> buyer_id,
     seller_id |-> seller_id,
     order_code |-> code,
     payment_status |-> "pending",
     fulfillment_status |-> "pending_confirmation",
     shipping_fee |-> 0,
     discount_amount |-> 0,
     total_amount |-> total,
     items |-> items,
     timeline |-> <<TimelineEntry("created", "Order created", buyer_id)>>,
     tracking_number |-> 0,
     shipping_provider |-> None,
     transaction_id |-> None]

CancellableMutant == {"pending_confirmation", "processing", "shipping"}
\* cancel_order: the statuses a buyer may cancel from
CancellableStatuses == {"pending_confirmation", "processing"}

\* the orders collection after update_order_payment_status
update_order_payment_status(os, order_id, new_status, note, actor_id, transaction_id) ==
    [os EXCEPT
        ![order_id].payment_status = new_status,
        ![order_id].transaction_id =
            IF transaction_id # None THEN transaction_id ELSE @,
        ![order_id].timeline =
            Append(@, TimelineEntry("payment_" \o new_status, note, actor_id))]

\* the orders collection after update_order_fulfillment_status
update_order_fulfillment_status(os, order_id, new_status, note, actor_id) ==
    [os EXCEPT
        ![order_id].fulfillment_status = new_status,
        ![order_id].timeline =
            Append(@, TimelineEntry("fulfillment_" \o new_status, note, actor_id))]

\* whether the model lets the timeline of order_id grow by n entries
TimelineRoom(order_id, n) ==
    order_id \in OrderIds => Len(orders[order_id].timeline) + n <= MaxTimeline

cancel_order_code(actor, order_id) ==
    IF require_buyer(actor) # OK THEN require_buyer(actor)
    ELSE IF order_id \notin OrderIds \/ orders[order_id].buyer_id # actor THEN NotFound
    ELSE IF orders[order_id].fulfillment_status \notin CancellableStatuses
    THEN InvalidInput
    ELSE OK

\* POST /orders/{order_id}/cancel
cancel_order(actor, order_id) ==
    LET code == cancel_order_code(actor, order_id) IN
    /\ code = OK => TimelineRoom(order_id, 1)
    /\ resp' = Resp("cancel_order", actor, order_id, code)
    /\ orders' =
        IF code = OK
        THEN [orders EXCEPT
                ![order_id].fulfillment_status = "cancelled",
                ![order_id].payment_status = "cancelled",
                ![order_id].timeline =
                    Append(@, TimelineEntry("cancelled", "Khach hang da huy don", actor))]
        ELSE orders
    /\ UNCHANGED <<chatVars, shopVars, catalogVars, payVars, authVars, users, shipments, notifications, prefs>>

-----------------------------------------------------------------------------
(* orders/router.py: seller and admin transitions *)

ConfirmableMutant == {"pending_confirmation", "processing", "shipping"}
\* seller_confirm_order: the statuses an order may be confirmed from
ConfirmableStatuses == {"pending_confirmation", "processing"}

\* the lookup and ownership checks shared by the seller routes
seller_order_code(actor, order_id) ==
    IF require_seller(actor) # OK THEN require_seller(actor)
    ELSE IF order_id \notin OrderIds THEN NotFound
    ELSE IF orders[order_id].seller_id # actor THEN Forbidden
    ELSE OK

seller_confirm_order_code(actor, order_id) ==
    IF seller_order_code(actor, order_id) # OK THEN seller_order_code(actor, order_id)
    ELSE IF orders[order_id].fulfillment_status \notin ConfirmableStatuses
    THEN InvalidInput
    ELSE OK

\* the body shared by the three seller routes: reject with the code of the failed
\* check, or set the new status with the note of the request and notify the buyer
seller_transition(op, code, actor, order_id, new_status, default_note, event) ==
    /\ resp' = Resp(op, actor, order_id, code)
    /\ \/ /\ code # OK
          /\ UNCHANGED <<orders, notifications>>
       \/ /\ code = OK
          /\ TimelineRoom(order_id, 1)
          /\ \E note \in NoteInputs :
                orders' = update_order_fulfillment_status(
                              orders, order_id, new_status,
                              OrElse(note, default_note), actor)
          /\ notifications' =
                create_notification(notifications, orders[order_id].buyer_id,
                                    event, order_id)
    /\ UNCHANGED <<chatVars, shopVars, catalogVars, payVars, authVars, users, shipments, prefs>>

\* POST /orders/{order_id}/confirm
seller_confirm_order(actor, order_id) ==
    seller_transition("seller_confirm_order",
                      seller_confirm_order_code(actor, order_id),
                      actor, order_id, "processing",
                      "Order confirmed by seller", "order_processing")

\* POST /orders/{order_id}/ready-to-ship
seller_ready_to_ship(actor, order_id) ==
    seller_transition("seller_ready_to_ship",
                      seller_order_code(actor, order_id),
                      actor, order_id, "shipping",
                      "Order ready for shipment", "order_shipping")

\* POST /orders/{order_id}/delivered
seller_mark_delivered(actor, order_id) ==
    seller_transition("seller_mark_delivered",
                      seller_order_code(actor, order_id),
                      actor, order_id, "delivered",
                      "Order marked as delivered", "order_delivered")

admin_refund_order_code(actor, order_id) ==
    IF require_admin(actor) # OK THEN require_admin(actor)
    ELSE IF order_id \notin OrderIds THEN NotFound
    ELSE OK

\* POST /orders/{order_id}/refund
admin_refund_order(actor, order_id) ==
    LET code == admin_refund_order_code(actor, order_id) IN
    /\ resp' = Resp("admin_refund_order", actor, order_id, code)
    /\ \/ /\ code # OK
          /\ UNCHANGED <<orders, notifications>>
       \/ /\ code = OK
          /\ TimelineRoom(order_id, 2)
          /\ \E note \in NoteInputs :
                LET n == OrElse(note, "Refund processed by admin") IN
                orders' = update_order_fulfillment_status(
                              update_order_payment_status(
                                  orders, order_id, "refunded", n, actor, None),
                              order_id, "refunded", n, actor)
          /\ notifications' =
                create_notification(
                    create_notification(notifications, orders[order_id].buyer_id,
                                        "order_refunded", order_id),
                    orders[order_id].seller_id, "order_refunded", order_id)
    /\ UNCHANGED <<chatVars, shopVars, catalogVars, payVars, authVars, users, shipments, prefs>>

-----------------------------------------------------------------------------
(* shipping/service.py and shipping/router.py *)

ShipmentIds == 1..Len(shipments)
\* tracking numbers a request may name: every stored one and one that matches none
TrackingInputs == 1..(Len(shipments) + 1)

AllowedCreateMutant == {"pending_confirmation", "processing", "shipping"}
ALLOWED_CREATE_STATUSES == {"pending_confirmation", "processing"}

\* statuses a seller or a provider webhook may report
ShipmentStatusInputs ==
    {"picked_up", "in_transit", "delivered", "completed", "cancelled", "returned"}

HistoryEntry(status, note, actor_id) ==
    [status |-> status, note |-> note, actor_id |-> actor_id]

ShipmentsOf(order_id) == {i \in ShipmentIds : shipments[i].order_id = order_id}

\* find_one({"order_id": ...}): the first matching document
get_shipment_by_order(order_id) ==
    CHOOSE i \in ShipmentsOf(order_id) : \A j \in ShipmentsOf(order_id) : i <= j

has_shipment_mutant(order_id) == FALSE
\* existing = find_one({"order_id": ...}) of create_shipment
has_shipment(order_id) == ShipmentsOf(order_id) # {}

\* the tracking number of the shipment document inserted next
NewTracking == Len(shipments) + 1

NewShipment_mutant(order_id, provider, note, actor_id) ==
    [order_id |-> order_id,
     provider |-> provider,
     tracking_number |-> NewTracking,
     status |-> "pending",
     status_history |->
        <<HistoryEntry("label_created", OrElse(note, "Shipment label created"), actor_id)>>]
\* the shipment document create_shipment inserts
NewShipment(order_id, provider, note, actor_id) ==
    [order_id |-> order_id,
     provider |-> provider,
     tracking_number |-> NewTracking,
     status |-> "label_created",
     status_history |->
        <<HistoryEntry("label_created", OrElse(note, "Shipment label created"), actor_id)>>]

\* update_order_fulfillment_status with the extra_updates of create_shipment
stamp_shipment(os, order_id, tracking_number, provider, actor_id) ==
    [update_order_fulfillment_status(os, order_id, "processing",
                                     "Shipment label created", actor_id)
        EXCEPT ![order_id].tracking_number = tracking_number,
               ![order_id].shipping_provider = provider]

create_shipment_code(actor, order_id) ==
    IF seller_order_code(actor, order_id) # OK THEN seller_order_code(actor, order_id)
    ELSE IF orders[order_id].fulfillment_status \notin ALLOWED_CREATE_STATUSES
    THEN InvalidInput
    ELSE OK

\* POST /shipping/orders/{order_id}: reject, return the existing shipment, or
\* insert a shipment, advance the order to processing and notify the buyer
create_shipment(actor, order_id) ==
    LET code == create_shipment_code(actor, order_id) IN
    /\ resp' = Resp("create_shipment", actor, order_id, code)
    /\ \/ /\ code # OK \/ has_shipment(order_id)
          /\ UNCHANGED <<shipments, orders, notifications>>
       \/ /\ code = OK
          /\ ~has_shipment(order_id)
          /\ TimelineRoom(order_id, 1)
          /\ \E note \in ShippingNoteInputs :
                shipments' = Append(shipments, NewShipment(order_id, "mock", note, actor))
          /\ orders' = stamp_shipment(orders, order_id, NewTracking, "mock", actor)
          /\ notifications' =
                create_notification(notifications, orders[order_id].buyer_id,
                                    "shipment_created", order_id)
    /\ UNCHANGED <<chatVars, shopVars, catalogVars, payVars, authVars, users, prefs>>

status_mapping_mutant(status_value) ==
    CASE status_value = "in_transit" -> "shipping"
      [] status_value = "picked_up" -> "shipping"
      [] status_value = "delivered" -> "delivered"
      [] status_value = "completed" -> "completed"
      [] status_value = "cancelled" -> "cancelled"
      [] status_value = "returned" -> "returned"
      [] OTHER -> None

\* status_mapping of update_shipment_status; None for a status outside the table
status_mapping(status_value) ==
    CASE status_value = "in_transit" -> "shipping"
      [] status_value = "delivered" -> "delivered"
      [] status_value = "completed" -> "completed"
      [] status_value = "cancelled" -> "cancelled"
      [] status_value = "returned" -> "returned"
      [] OTHER -> None

\* whether the model lets shipment sid and its order take one more entry each
ShipmentRoom(sid, status_value) ==
    /\ Len(shipments[sid].status_history) < MaxHistory
    /\ status_mapping(status_value) # None => TimelineRoom(shipments[sid].order_id, 1)

\* update_shipment_status on a stored shipment sid
update_shipment_status(sid, status_value, note) ==
    LET order_id == shipments[sid].order_id
        order_status == status_mapping(status_value)
        toBuyer == create_notification(notifications, orders[order_id].buyer_id,
                                       "shipment_update", order_id)
    IN
    /\ shipments' =
        [shipments EXCEPT
            ![sid].status = status_value,
            ![sid].status_history = Append(@, HistoryEntry(status_value, note, None))]
    /\ orders' =
        IF order_status # None
        THEN update_order_fulfillment_status(
                 orders, order_id, order_status,
                 OrElse(note, "Shipment status: " \o status_value), None)
        ELSE orders
    /\ notifications' =
        IF status_value \in {"cancelled", "returned"}
        THEN create_notification(toBuyer, orders[order_id].seller_id,
                                 "shipment_update", order_id)
        ELSE toBuyer

update_shipment_status_manual_code(actor, order_id) ==
    IF seller_order_code(actor, order_id) # OK THEN seller_order_code(actor, order_id)
    ELSE IF ShipmentsOf(order_id) = {} THEN NotFound
    ELSE OK

\* PATCH /shipping/orders/{order_id}
update_shipment_status_manual(actor, order_id) ==
    LET code == update_shipment_status_manual_code(actor, order_id) IN
    /\ resp' = Resp("update_shipment_status_manual", actor, order_id, code)
    /\ \/ /\ code # OK
          /\ UNCHANGED <<shipments, orders, notifications>>
       \/ /\ code = OK
          /\ \E status_value \in ShipmentStatusInputs, note \in ShippingNoteInputs :
                /\ ShipmentRoom(get_shipment_by_order(order_id), status_value)
                /\ update_shipment_status(get_shipment_by_order(order_id),
                                          status_value, note)
    /\ UNCHANGED <<chatVars, shopVars, catalogVars, payVars, authVars, users, prefs>>

\* the shipments whose tracking_number is the one the webhook names
ShipmentsTracked(tracking_number) ==
    {i \in ShipmentIds : shipments[i].tracking_number = tracking_number}

\* POST /shipping/webhook/{provider}; the caller is not authenticated
shipping_webhook(tracking_number) ==
    LET found == ShipmentsTracked(tracking_number)
        code == IF found = {} THEN NotFound ELSE OK
        sid == CHOOSE i \in found : \A j \in found : i <= j
        order_id == IF code = OK THEN shipments[sid].order_id ELSE 0
    IN
    /\ resp' = Resp("shipping_webhook", Anon, order_id, code)
    /\ \/ /\ code # OK
          /\ UNCHANGED <<shipments, orders, notifications>>
       \/ /\ code = OK
          /\ \E status_value \in ShipmentStatusInputs, note \in ShippingNoteInputs :
                /\ ShipmentRoom(sid, status_value)
                /\ update_shipment_status(sid, status_value,
                                          OrElse(note, "Webhook mock"))
    /\ UNCHANGED <<chatVars, shopVars, catalogVars, payVars, authVars, users, prefs>>

-----------------------------------------------------------------------------
(* POST /shipping/orders/{order_id} under concurrent requests: the route   *)
(* is a plain def endpoint, so two requests interleave between their       *)
(* database round trips. Each round trip is one step.                      *)

ShipmentRequest(actor, order_id) ==
    [kind |-> "create_shipment", pc |-> "done", actor |-> actor,
     order_id |-> order_id, entry |-> 0, code |-> OK]

\* the guards, the status check and find_one({"order_id": ...})
create_shipment_start(r, actor, order_id) ==
    LET code == create_shipment_code(actor, order_id)
        existing == code = OK /\ has_shipment(order_id)
    IN  /\ r \in FreeRequestIds
        /\ \/ /\ code # OK \/ existing
              /\ requests' =
                    r :> [ShipmentRequest(actor, order_id) EXCEPT
                            !.code = code,
                            !.entry = IF existing
                                      THEN shipments[get_shipment_by_order(order_id)].tracking_number
                                      ELSE 0] @@ requests
              /\ resp' = Resp("create_shipment", actor, order_id, code)
           \/ /\ code = OK
              /\ ~existing
              /\ requests' =
                    r :> [ShipmentRequest(actor, order_id) EXCEPT !.pc = "insert"]
                    @@ requests
              /\ UNCHANGED resp
        /\ UNCHANGED <<chatVars, shopVars, catalogVars, payVars, users, orders, shipments,
                       notifications, prefs, password_reset_tokens, clock>>

\* insert_one(shipment)
create_shipment_insert(r) ==
    /\ r \in RequestIds
    /\ requests[r].pc = "insert"
    /\ \E note \in ShippingNoteInputs :
          shipments' = Append(shipments, NewShipment(requests[r].order_id, "mock",
                                                    note, requests[r].actor))
    /\ requests' = [requests EXCEPT ![r].pc = "update_order", ![r].entry = NewTracking]
    /\ UNCHANGED <<chatVars, shopVars, catalogVars, payVars, users, orders, notifications,
                   prefs, password_reset_tokens, clock, resp>>

\* update_order_fulfillment_status, create_notification and the response
create_shipment_finish(r) ==
    LET order_id == requests[r].order_id IN
    /\ r \in RequestIds
    /\ requests[r].pc = "update_order"
    /\ TimelineRoom(order_id, 1)
    /\ orders' = stamp_shipment(orders, order_id, requests[r].entry, "mock",
                                requests[r].actor)
    /\ notifications' = create_notification(notifications, orders[order_id].buyer_id,
                                            "shipment_created", order_id)
    /\ requests' = [requests EXCEPT ![r].pc = "done"]
    /\ resp' = Resp("create_shipment", requests[r].actor, order_id, OK)
    /\ UNCHANGED <<chatVars, shopVars, catalogVars, payVars, users, shipments, prefs,
                   password_reset_tokens, clock>>

-----------------------------------------------------------------------------
(* catalog/service.py: products, variants and inventory *)

\* stock_quantity the variant on sale is created with
StockInputs == {0, 1, 2}

ProductIds == {"p1", "p2"}
VariantInputs == {None, "v1", "vx"}
NoVariants == [v \in {} |-> [price |-> 0, stock_quantity |-> 0]]

\* p1 is sold by s1 and has one variant with tracked stock; p2 is sold by
\* s2 and has no variant. Names and slugs are sequences of characters; both
\* products were created with the name n1.
SeedProducts(stock) ==
    [p \in ProductIds |->
        IF p = "p1"
        THEN [seller_id |-> "s1", status |-> "active", base_price |-> 7,
              name |-> <<"n", "1">>, slug |-> <<"n", "1">>,
              thumbnail_url |-> None, image_urls |-> <<"i1">>,
              variants |-> [v \in {"v1"} |->
                               [price |-> 10, stock_quantity |-> stock]]]
        ELSE [seller_id |-> "s2", status |-> "active", base_price |-> 5,
              name |-> <<"n", "1">>, slug |-> <<"n", "1", "-", "2">>,
              thumbnail_url |-> None, image_urls |-> <<>>,
              variants |-> NoVariants]]

HasVariant(product_id, variant_id) ==
    /\ product_id \in DOMAIN products
    /\ variant_id \in DOMAIN products[product_id].variants

get_product_with_variant_code(product_id, variant_id) ==
    IF product_id \notin DOMAIN products THEN NotFound
    ELSE IF products[product_id].status \notin {"active", "draft"} THEN InvalidInput
    ELSE IF variant_id = None THEN OK
    ELSE IF ~HasVariant(product_id, variant_id) THEN NotFound
    ELSE OK

\* variant["stock_quantity"] of an existing variant
stock_quantity(product_id, variant_id) ==
    products[product_id].variants[variant_id].stock_quantity

\* variant["price"] if variant else product["base_price"]
unit_price(product_id, variant_id) ==
    IF variant_id = None THEN products[product_id].base_price
    ELSE products[product_id].variants[variant_id].price

-----------------------------------------------------------------------------
(* cart/service.py and cart/router.py *)

NoCarts == [u \in {} |-> [items |-> <<>>]]

\* _ensure_cart: the caller's cart document, inserted empty when missing
ensure_cart(cs, user_id) ==
    IF user_id \in DOMAIN cs THEN cs
    ELSE [u \in DOMAIN cs \cup {user_id} |->
             IF u = user_id THEN [items |-> <<>>] ELSE cs[u]]

\* the items of a user's cart as get_cart returns them
cart_items(cs, user_id) == ensure_cart(cs, user_id)[user_id].items

find_item_index_mutant(items, product_id, variant_id) == 0
\* _find_item_index, 1-based; 0 when no line matches
find_item_index(items, product_id, variant_id) ==
    LET hits == {i \in 1..Len(items) : /\ items[i].product_id = product_id
                                       /\ items[i].variant_id = variant_id}
    IN  IF hits = {} THEN 0 ELSE CHOOSE i \in hits : \A j \in hits : i <= j

\* position of the line with this item_id; 0 when there is none
item_index(items, item_id) ==
    LET hits == {i \in 1..Len(items) : items[i].item_id = item_id}
    IN  IF hits = {} THEN 0 ELSE CHOOSE i \in hits : \A j \in hits : i <= j

\* quantities a request may carry; CartItemAddRequest and
\* CartItemUpdateRequest declare quantity with gt=0
QuantityInputs == 0..MaxQuantity
ItemIdInputs == 1..(item_seq + 1)

\* stock_quantity is not None and quantity > stock_quantity
ExceedsStockMutant(product_id, variant_id, quantity) ==
    /\ variant_id # None
    /\ quantity > stock_quantity(product_id, variant_id) + 1

ExceedsStock(product_id, variant_id, quantity) ==
    /\ variant_id # None
    /\ quantity > stock_quantity(product_id, variant_id)

add_item_code(actor, product_id, variant_id, quantity) ==
    LET items == cart_items(carts, actor)
        idx == find_item_index(items, product_id, variant_id)
    IN  IF require_buyer(actor) # OK THEN require_buyer(actor)
        ELSE IF quantity <= 0 THEN Unprocessable
        ELSE IF get_product_with_variant_code(product_id, variant_id) # OK
             THEN get_product_with_variant_code(product_id, variant_id)
        ELSE IF ExceedsStock(product_id, variant_id, quantity) THEN InvalidInput
        ELSE IF idx > 0 /\ ExceedsStock(product_id, variant_id,
                                        items[idx].quantity + quantity)
             THEN InvalidInput
        ELSE OK

add_item(actor, product_id, variant_id, quantity) ==
    LET code == add_item_code(actor, product_id, variant_id, quantity)
        cs == ensure_cart(carts, actor)
        items == cart_items(carts, actor)
        idx == find_item_index(items, product_id, variant_id)
        price == unit_price(product_id, variant_id)
    IN  /\ resp' = Resp("add_item", actor, 0, code)
        /\ \/ /\ code \in {Unauthorized, Forbidden, Unprocessable}
              /\ UNCHANGED <<carts, item_seq>>
           \/ /\ code \in {InvalidInput, NotFound}
              /\ carts' = cs
              /\ UNCHANGED item_seq
           \/ /\ code = OK
              /\ idx > 0
              /\ items[idx].quantity + quantity <= MaxQuantity
              /\ carts' = [cs EXCEPT ![actor].items[idx] =
                              [@ EXCEPT !.quantity = @ + quantity,
                                        !.price = price]]
              /\ UNCHANGED item_seq
           \/ /\ code = OK
              /\ idx = 0
              /\ item_seq < MaxItemIds
              /\ item_seq' = item_seq + 1
              /\ carts' = [cs EXCEPT ![actor].items =
                              Append(@, [item_id |-> item_seq + 1,
                                         product_id |-> product_id,
                                         variant_id |-> variant_id,
                                         quantity |-> quantity,
                                         price |-> price])]
        /\ UNCHANGED <<chatVars, shopVars, payVars, authVars, users, orders, shipments, notifications, prefs,
                       addresses, products, inventory_logs>>

update_item_quantity_code(actor, item_id, quantity) ==
    LET items == cart_items(carts, actor)
        idx == item_index(items, item_id)
    IN  IF require_buyer(actor) # OK THEN require_buyer(actor)
        ELSE IF quantity <= 0 THEN Unprocessable
        ELSE IF idx = 0 THEN NotFound
        ELSE IF get_product_with_variant_code(items[idx].product_id,
                                              items[idx].variant_id) # OK
             THEN get_product_with_variant_code(items[idx].product_id,
                                                items[idx].variant_id)
        ELSE IF ExceedsStock(items[idx].product_id, items[idx].variant_id, quantity)
             THEN InvalidInput
        ELSE OK

update_item_quantity(actor, item_id, quantity) ==
    LET code == update_item_quantity_code(actor, item_id, quantity)
        cs == ensure_cart(carts, actor)
        items == cart_items(carts, actor)
        idx == item_index(items, item_id)
    IN  /\ resp' = Resp("update_item_quantity", actor, 0, code)
        /\ \/ /\ code \in {Unauthorized, Forbidden, Unprocessable}
              /\ UNCHANGED carts
           \/ /\ code = InvalidInput
              /\ carts' = cs
           \/ /\ code = NotFound
              /\ carts' = cs
           \/ /\ code = OK
              /\ carts' = [cs EXCEPT ![actor].items[idx] =
                              [@ EXCEPT !.quantity = quantity,
                                        !.price = unit_price(items[idx].product_id,
                                                             items[idx].variant_id)]]
        /\ UNCHANGED <<chatVars, shopVars, payVars, authVars, users, orders, shipments, notifications, prefs,
                       addresses, products, inventory_logs, item_seq>>

remove_item_code_mutant(actor, item_id) == require_buyer(actor)

remove_item_code(actor, item_id) ==
    IF require_buyer(actor) # OK THEN require_buyer(actor)
    ELSE IF item_index(cart_items(carts, actor), item_id) = 0 THEN NotFound
    ELSE OK

remove_item(actor, item_id) ==
    LET code == remove_item_code(actor, item_id)
        cs == ensure_cart(carts, actor)
    IN  /\ resp' = Resp("remove_item", actor, 0, code)
        /\ \/ /\ code \in {Unauthorized, Forbidden}
              /\ UNCHANGED carts
           \/ /\ code = NotFound
              /\ carts' = cs
           \/ /\ code = OK
              /\ carts' = [cs EXCEPT ![actor].items =
                              SelectSeq(@, LAMBDA item : item.item_id # item_id)]
        /\ UNCHANGED <<chatVars, shopVars, payVars, authVars, users, orders, shipments, notifications, prefs,
                       addresses, products, inventory_logs, item_seq>>

\* service clear_cart: the caller's cart, emptied
clear_cart_of(cs, user_id) ==
    [ensure_cart(cs, user_id) EXCEPT ![user_id].items = <<>>]

clear_cart(actor) ==
    LET code == require_buyer(actor)
    IN  /\ resp' = Resp("clear_cart", actor, 0, code)
        /\ carts' = IF code = OK THEN clear_cart_of(carts, actor) ELSE carts
        /\ UNCHANGED <<chatVars, shopVars, payVars, authVars, users, orders, shipments, notifications, prefs,
                       addresses, products, inventory_logs, item_seq>>

-----------------------------------------------------------------------------
(* cart/service.py: favorites; catalog update_product *)

\* product ids a request may name: the stored products and one that matches none
ProductIdInputs == ProductIds \cup {"px"}

\* _cart_thumbnail: the thumbnail, else the first image, else nothing
cart_thumbnail(product) ==
    IF product.thumbnail_url # None THEN product.thumbnail_url
    ELSE IF product.image_urls # <<>> THEN product.image_urls[1]
    ELSE None

FavoritesOf(fs, user_id, product_id) ==
    {f \in fs : f.user_id = user_id /\ f.product_id = product_id}

upsert_favorite_mutant(fs, user_id, product_id, now) ==
    (fs \ FavoritesOf(fs, user_id, product_id))
    \cup {[user_id |-> user_id, product_id |-> product_id,
           product_name |-> products[product_id].name,
           thumbnail_url |-> cart_thumbnail(products[product_id]),
           created_at |-> now]}

\* update_one(..., upsert=True): $set refreshes the display fields of the
\* document of the pair, $setOnInsert fills a new one
upsert_favorite(fs, user_id, product_id, now) ==
    IF FavoritesOf(fs, user_id, product_id) = {}
    THEN fs \cup {[user_id |-> user_id, product_id |-> product_id,
                   product_name |-> products[product_id].name,
                   thumbnail_url |-> cart_thumbnail(products[product_id]),
                   created_at |-> now]}
    ELSE {IF f \in FavoritesOf(fs, user_id, product_id)
          THEN [f EXCEPT !.product_name = products[product_id].name,
                         !.thumbnail_url = cart_thumbnail(products[product_id])]
          ELSE f : f \in fs}

add_favorite_code(actor, product_id) ==
    IF require_buyer(actor) # OK THEN require_buyer(actor)
    ELSE get_product_with_variant_code(product_id, None)

\* POST /favorites
add_favorite(actor, product_id) ==
    LET code == add_favorite_code(actor, product_id) IN
    /\ resp' = Resp("add_favorite", actor, product_id, code)
    /\ favorites' = IF code = OK
                    THEN upsert_favorite(favorites, actor, product_id, clock)
                    ELSE favorites
    /\ UNCHANGED <<chatVars, sellers, categories, catalogVars, payVars, authVars, users,
                   orders, shipments, notifications, prefs>>

\* DELETE /favorites/{product_id}
remove_favorite(actor, product_id) ==
    LET code == require_buyer(actor) IN
    /\ resp' = Resp("remove_favorite", actor, product_id, code)
    /\ favorites' = IF code = OK
                    THEN favorites \ FavoritesOf(favorites, actor, product_id)
                    ELSE favorites
    /\ UNCHANGED <<chatVars, sellers, categories, catalogVars, payVars, authVars, users,
                   orders, shipments, notifications, prefs>>

\* payload.model_dump(exclude_none=True) of ProductUpdateRequest: the given
\* fields only, among those the model varies
Restrict(f, keys) == [k \in keys |-> f[k]]

ProductUpdateInputs ==
    {Restrict([name |-> <<"n", "2">>, thumbnail_url |-> "t2", status |-> st], keys) :
        st \in {"archived", "active"},
        keys \in SUBSET {"name", "thumbnail_url", "status"}}

\* update_fields[key] = payload[key] for the keys given
Given(payload, key, old) == IF key \in DOMAIN payload THEN payload[key] ELSE old

update_product_code(actor, product_id) ==
    IF require_seller(actor) # OK THEN require_seller(actor)
    ELSE IF product_id \notin DOMAIN products THEN NotFound
    ELSE IF products[product_id].seller_id # actor /\ users[actor].role # "admin"
    THEN Forbidden
    ELSE OK

\* PUT /catalog/products/{product_id}
update_product(actor, product_id, payload) ==
    LET code == update_product_code(actor, product_id) IN
    /\ resp' = Resp("update_product", actor, product_id, code)
    /\ products' =
          IF code = OK
          THEN [products EXCEPT
                  ![product_id].name = Given(payload, "name", @),
                  ![product_id].thumbnail_url = Given(payload, "thumbnail_url", @),
                  ![product_id].status = Given(payload, "status", @)]
          ELSE products
    /\ UNCHANGED <<chatVars, shopVars, payVars, authVars, users, orders, shipments,
                   notifications, prefs, addresses, inventory_logs, carts, item_seq>>

-----------------------------------------------------------------------------
(* catalog/service.py: inventory *)

\* InventoryAdjustRequest.delta: a non-zero integer
DeltaInputs == {-2, -1, 1}
InventoryVariantInputs == {"v1", "v2", "vx"}

\* p1 of seller s1 with two variants in stock, p2 of seller s2 without variant
InventoryProducts ==
    [SeedProducts(1) EXCEPT
        !["p1"].variants = [v \in {"v1", "v2"} |->
                              [price |-> 10, stock_quantity |-> 1]]]

\* adjust_inventory: the status it answers with
adjust_inventory_code_mutant(actor, product_id, variant_id, delta) ==
    IF require_seller(actor) # OK THEN require_seller(actor)
    ELSE IF product_id \notin DOMAIN products THEN NotFound
    ELSE IF products[product_id].seller_id # actor THEN NotFound
    ELSE IF ~HasVariant(product_id, variant_id) THEN NotFound
    ELSE OK

adjust_inventory_code(actor, product_id, variant_id, delta) ==
    IF require_seller(actor) # OK THEN require_seller(actor)
    ELSE IF product_id \notin DOMAIN products THEN NotFound
    ELSE IF products[product_id].seller_id # actor THEN NotFound
    ELSE IF ~HasVariant(product_id, variant_id) THEN NotFound
    ELSE IF stock_quantity(product_id, variant_id) + delta < 0 THEN InvalidInput
    ELSE OK

\* log_doc
InventoryLog(product_id, variant_id, delta, actor_id) ==
    [product_id |-> product_id, variant_id |-> variant_id, delta |-> delta,
     created_by |-> actor_id]

\* POST /catalog/products/{product_id}/inventory/adjust
adjust_inventory(actor, product_id, variant_id, delta) ==
    LET code == adjust_inventory_code(actor, product_id, variant_id, delta) IN
    /\ resp' = Resp("adjust_inventory", actor, product_id, code)
    /\ \/ /\ code # OK
          /\ UNCHANGED <<products, inventory_logs>>
       \/ /\ code = OK
          /\ stock_quantity(product_id, variant_id) + delta <= MaxStock
          /\ Len(inventory_logs) < MaxLogs
          /\ products' =
                [products EXCEPT
                    ![product_id].variants[variant_id].stock_quantity = @ + delta]
          /\ inventory_logs' =
                Append(inventory_logs,
                       InventoryLog(product_id, variant_id, delta, actor))
    /\ UNCHANGED <<chatVars, shopVars, payVars, authVars, users, orders, shipments,
                   notifications, prefs, addresses, carts, item_seq>>

-----------------------------------------------------------------------------
(* catalog/service.py and sellers/service.py: slugs. Names and slugs are     *)
(* sequences of one-character strings.                                     *)

LowerLetters == {"s", "h", "o", "p", "n", "i", "t", "e", "m"}
DigitChars == {"1", "2", "3", "4", "5"}

\* str.lower() on the alphabet of the model, whose only capital is S
lower(name) == [i \in DOMAIN name |-> IF name[i] = "S" THEN "s" ELSE name[i]]

\* the characters of s at the given positions, in order
Keep(s, positions) ==
    LET F[i \in 0..Len(s)] ==
            IF i = 0 THEN <<>>
            ELSE IF i \in positions THEN Append(F[i - 1], s[i]) ELSE F[i - 1]
    IN F[Len(s)]

\* str.strip(chars)
strip(s, chars) ==
    LET inside(i) == /\ \E j \in 1..i : s[j] \notin chars
                     /\ \E j \in i..Len(s) : s[j] \notin chars
    IN Keep(s, {i \in DOMAIN s : inside(i)})

\* pattern.sub("-", s) for a pattern [^...]+ : every maximal run of characters
\* outside allowed becomes one hyphen
sub_runs(s, allowed) ==
    LET first_of_run(i) == s[i] \in allowed \/ i = 1 \/ s[i - 1] \in allowed
        kept == Keep(s, {i \in DOMAIN s : first_of_run(i)})
    IN [i \in DOMAIN kept |-> IF kept[i] \in allowed THEN kept[i] ELSE "-"]

\* re.sub("-{2,}", "-", s)
collapse_hyphens(s) ==
    LET first_hyphen(i) == s[i] # "-" \/ i = 1 \/ s[i - 1] # "-"
    IN Keep(s, {i \in DOMAIN s : first_hyphen(i)})

\* catalog SLUG_PATTERN [^a-z0-9-]+ and sellers SLUG_REGEX [^a-z0-9]+
SLUG_PATTERN == LowerLetters \cup DigitChars \cup {"-"}
SLUG_REGEX == LowerLetters \cup DigitChars

\* the decimal digits of a positive number, as str() writes them
RECURSIVE digits(_)
digits(n) ==
    IF n < 10 THEN <<ToString(n)>>
    ELSE digits(n \div 10) \o <<ToString(n % 10)>>

\* the idx-th slug the generators try: base, then f"{base}-{idx}" from 2 on
slug_candidate(base, idx) ==
    IF idx = 1 THEN base ELSE base \o <<"-">> \o digits(idx)

\* the while loop of both generators: the first candidate not yet taken
RECURSIVE first_free_mutant(_, _, _)
first_free_mutant(base, taken, idx) ==
    IF slug_candidate(base, idx) \notin taken \/ idx > 1 THEN slug_candidate(base, idx)
    ELSE first_free_mutant(base, taken, idx + 1)

RECURSIVE first_free(_, _, _)
first_free(base, taken, idx) ==
    IF slug_candidate(base, idx) \notin taken THEN slug_candidate(base, idx)
    ELSE first_free(base, taken, idx + 1)

\* catalog _generate_slug up to the loop
catalog_slug_base(name) ==
    LET base == strip(collapse_hyphens(
                    sub_runs(strip(lower(name), {" "}), SLUG_PATTERN)), {"-"})
    IN IF base = <<>> THEN <<"i", "t", "e", "m">> ELSE base

\* catalog _generate_slug(name, existing)
catalog_generate_slug(name, taken) == first_free(catalog_slug_base(name), taken, 1)

\* sellers _generate_slug up to the loop
seller_slug_base(name) ==
    LET slug == strip(sub_runs(lower(name), SLUG_REGEX), {"-"})
    IN IF slug = <<>> THEN <<"s", "h", "o", "p">> ELSE slug

\* sellers _generate_slug(base, db, exclude_id): taken holds the slugs of the
\* documents other than exclude_id
seller_generate_slug(name, taken) == first_free(seller_slug_base(name), taken, 1)

ShopName == <<"S", "h", "o", "p">>
Shop2Name == <<"s", "h", "o", "p", " ", "2">>
SymbolsName == <<"!", "!", " ">>

\* model_dump() of CategoryCreateRequest and ProductCreateRequest: name and
\* slug; a slug left out (None) is a key that is absent
CategoryCreateInputs ==
    {[name |-> ShopName], [name |-> Shop2Name],
     [name |-> <<"n", "1">>, slug |-> <<"s", "h", "o", "p", "-", "2">>]}
ProductCreateInputs ==
    {[name |-> <<"n", "1">>], [name |-> SymbolsName],
     [name |-> ShopName, slug |-> <<"n", "1">>]}

\* payload.get("slug") or _generate_slug(payload["name"], coll)
slug_of(payload, taken) ==
    IF "slug" \in DOMAIN payload /\ payload.slug # <<>> THEN payload.slug
    ELSE catalog_generate_slug(payload.name, taken)

CategorySlugs == {categories[i].slug : i \in DOMAIN categories}
ProductSlugs == {products[p].slug : p \in DOMAIN products}

\* POST /catalog/categories: insert_one raises DuplicateKeyError on the unique
\* slug index, which no handler catches
create_category_code(actor, payload) ==
    IF require_admin(actor) # OK THEN require_admin(actor)
    ELSE IF slug_of(payload, CategorySlugs) \in CategorySlugs THEN Internal
    ELSE Created

create_category(actor, payload) ==
    LET code == create_category_code(actor, payload) IN
    /\ Len(categories) < MaxCategories
    /\ resp' = Resp("create_category", actor, Len(categories) + 1, code)
    /\ categories' =
          IF code = Created
          THEN Append(categories, [name |-> payload.name,
                                   slug |-> slug_of(payload, CategorySlugs)])
          ELSE categories
    /\ UNCHANGED <<chatVars, favorites, sellers, catalogVars, payVars, authVars, users,
                   orders, shipments, notifications, prefs>>

CreatedProducts == DOMAIN products \ ProductIds
NewProductId == "p" \o ToString(Cardinality(DOMAIN products) + 1)

\* POST /catalog/products
create_product_code(actor, payload) ==
    IF require_seller(actor) # OK THEN require_seller(actor)
    ELSE IF slug_of(payload, ProductSlugs) \in ProductSlugs THEN Internal
    ELSE Created

create_product(actor, payload) ==
    LET code == create_product_code(actor, payload)
        doc == [seller_id |-> actor, status |-> "draft", base_price |-> 5,
                name |-> payload.name,
                slug |-> slug_of(payload, ProductSlugs),
                thumbnail_url |-> None, image_urls |-> <<>>,
                variants |-> NoVariants]
    IN
    /\ Cardinality(CreatedProducts) < MaxProducts
    /\ resp' = Resp("create_product", actor, NewProductId, code)
    /\ products' =
          IF code = Created
          THEN [p \in DOMAIN products \cup {NewProductId} |->
                   IF p = NewProductId THEN doc ELSE products[p]]
          ELSE products
    /\ UNCHANGED <<chatVars, shopVars, payVars, authVars, users, orders, shipments,
                   notifications, prefs, addresses, inventory_logs, carts,
                   item_seq>>

-----------------------------------------------------------------------------
(* sellers/service.py *)

\* the position of the seller record of a user, 0 when there is none
SellerOf(user_id) ==
    IF \E i \in DOMAIN sellers : sellers[i].user_id = user_id
    THEN CHOOSE i \in DOMAIN sellers : sellers[i].user_id = user_id
    ELSE 0

OtherSellerSlugs(idx) == {sellers[i].slug : i \in DOMAIN sellers \ {idx}}

ShopNameInputs == {ShopName, Shop2Name, <<" ">> \o ShopName}
\* the applications of the slug specification: applicant and shop name
ApplicationInputs ==
    {<<"b1", <<" ">> \o ShopName>>, <<"b2", Shop2Name>>, <<"b2", ShopName>>,
     <<"s2", ShopName>>}

\* submit_application: the record it writes for the user
submitted_seller_mutant(user_id, shop_name) ==
    LET name == strip(shop_name, {" "}) IN
    [user_id |-> user_id, shop_name |-> name,
     slug |-> seller_generate_slug(name, OtherSellerSlugs(SellerOf(user_id))),
     status |-> "pending", verification_notes |-> None]

submitted_seller(user_id, shop_name) ==
    LET existing == SellerOf(user_id)
        name == strip(shop_name, {" "})
        update_fields == [user_id |-> user_id, shop_name |-> name,
                          slug |-> seller_generate_slug(name, OtherSellerSlugs(existing))]
    IN IF existing # 0 /\ sellers[existing].status \notin {"rejected", "pending"}
       THEN update_fields @@ [status |-> sellers[existing].status,
                              verification_notes |-> sellers[existing].verification_notes]
       ELSE update_fields @@ [status |-> "pending", verification_notes |-> None]

\* POST /sellers/apply
submit_application(actor, shop_name) ==
    LET code == IF get_current_user(actor) # OK THEN get_current_user(actor) ELSE Created
        existing == SellerOf(actor)
    IN
    /\ existing # 0 \/ Len(sellers) < MaxSellers
    /\ resp' = Resp("submit_application", actor,
                    IF existing # 0 THEN existing ELSE Len(sellers) + 1, code)
    /\ sellers' =
          IF code # Created THEN sellers
          ELSE IF existing # 0
          THEN [sellers EXCEPT ![existing] = submitted_seller(actor, shop_name)]
          ELSE Append(sellers, submitted_seller(actor, shop_name))
    /\ UNCHANGED <<chatVars, favorites, categories, catalogVars, payVars, authVars, users,
                   orders, shipments, notifications, prefs>>

SellerStatus == {"pending", "approved", "rejected", "suspended"}
VerificationNotesInputs == {None, "notes"}

\* PUT /admin/sellers/{seller_id}/status
admin_update_seller_status_code(actor, seller_id) ==
    IF require_admin(actor) # OK THEN require_admin(actor)
    ELSE IF seller_id \notin DOMAIN sellers THEN NotFound
    ELSE OK

\* if status_value == "approved": users.update_one(role seller, is_active True)
promote_owner_mutant(us, user_id, status_value) ==
    IF status_value \in {"approved", "pending"}
    THEN [us EXCEPT ![user_id].role = "seller", ![user_id].is_active = TRUE]
    ELSE us

promote_owner(us, user_id, status_value) ==
    IF status_value = "approved"
    THEN [us EXCEPT ![user_id].role = "seller", ![user_id].is_active = TRUE]
    ELSE us

admin_update_seller_status(actor, seller_id, status_value, verification_notes) ==
    LET code == admin_update_seller_status_code(actor, seller_id) IN
    /\ resp' = Resp("admin_update_seller_status", actor, seller_id, code)
    /\ sellers' =
          IF code = OK
          THEN [sellers EXCEPT ![seller_id].status = status_value,
                               ![seller_id].verification_notes = verification_notes]
          ELSE sellers
    /\ users' =
          IF code = OK
          THEN promote_owner(users, sellers[seller_id].user_id, status_value)
          ELSE users
    /\ UNCHANGED <<chatVars, favorites, categories, catalogVars, payVars, authVars,
                   orders, shipments, notifications, prefs>>

-----------------------------------------------------------------------------
(* sellers/service.py and sellers/router.py: dashboard summary *)

\* the _id insert_one gives a seller record: an ObjectId of its own, which
\* is no user's id
SellerObjectIds == <<"r1", "r2", "r3", "r4">>
seller_object_id(i) == SellerObjectIds[i]

\* variant.get("low_stock_threshold", 5)
DEFAULT_LOW_STOCK_THRESHOLD == 5

\* orders.find({"seller_id": seller_id})
OrdersWithSeller(seller_id) == {o \in DOMAIN orders : orders[o].seller_id = seller_id}

\* the variants of products.find({"seller_id": seller_id}) at or under the threshold
LowStockVariants(seller_id) ==
    {pv \in (DOMAIN products) \X {"v1"} :
        /\ products[pv[1]].seller_id = seller_id
        /\ pv[2] \in DOMAIN products[pv[1]].variants
        /\ products[pv[1]].variants[pv[2]].stock_quantity <= DEFAULT_LOW_STOCK_THRESHOLD}

CountStatus(found, statuses) ==
    Cardinality({o \in found : orders[o].fulfillment_status \in statuses})

\* get_dashboard_summary(db, seller): seller_id = ObjectId(seller["_id"])
get_dashboard_summary(seller) ==
    LET seller_id == seller_object_id(seller)
        found == OrdersWithSeller(seller_id)
    IN  [total_orders |-> Cardinality(found),
         pending_orders |-> CountStatus(found, {"pending_confirmation"}),
         processing_orders |-> CountStatus(found, {"processing", "shipping"}),
         cancelled_orders |-> CountStatus(found, {"cancelled"}),
         completed_orders |-> CountStatus(found, {"delivered", "completed"}),
         low_stock_items |-> Cardinality(LowStockVariants(seller_id))]

seller_dashboard_summary_code(actor) ==
    IF require_seller(actor) # OK THEN require_seller(actor)
    ELSE IF SellerOf(actor) = 0 THEN Forbidden
    ELSE IF sellers[SellerOf(actor)].status # "approved" THEN Forbidden
    ELSE OK

\* GET /sellers/dashboard/summary; the response carries the summary
seller_dashboard_summary(actor) ==
    LET code == seller_dashboard_summary_code(actor)
    IN  /\ resp' = Resp("seller_dashboard_summary", actor,
                        IF code = OK THEN get_dashboard_summary(SellerOf(actor))
                        ELSE 0,
                        code)
        /\ UNCHANGED <<chatVars, shopVars, catalogVars, payVars, authVars, users,
                       orders, shipments, notifications, prefs>>

-----------------------------------------------------------------------------
(* admin/router.py *)

\* UpdateUserRoleRequest: role, and is_active when it is given
UserRoleInputs ==
    {[role |-> "buyer"], [role |-> "buyer", is_active |-> FALSE],
     [role |-> "seller", is_active |-> FALSE]}

\* PUT /admin/users/{user_id}/role
admin_update_user_role_code(actor, user_id) ==
    IF require_admin(actor) # OK THEN require_admin(actor)
    ELSE IF user_id \notin DOMAIN users THEN NotFound
    ELSE OK

admin_update_user_role(actor, user_id, payload) ==
    LET code == admin_update_user_role_code(actor, user_id) IN
    /\ resp' = Resp("admin_update_user_role", actor, user_id, code)
    /\ users' =
          IF code = OK
          THEN [users EXCEPT
                  ![user_id].role = payload.role,
                  ![user_id].is_active = Given(payload, "is_active", @)]
          ELSE users
    /\ UNCHANGED <<chatVars, shopVars, catalogVars, payVars, authVars, orders, shipments,
                   notifications, prefs>>

-----------------------------------------------------------------------------
(* chat/service.py and chat/router.py *)

ThreadIdInputs == {1, 2}
ContentInputs == {"hi", "yo"}
MessageTypeInputs == {"text", "image"}

\* thread_doc of get_or_create_thread_for_order
NewThread(order_id) ==
    [order_id |-> order_id,
     buyer_id |-> orders[order_id].buyer_id,
     seller_id |-> orders[order_id].seller_id,
     last_message_preview |-> ""]

\* threads_collection(db).find_one({"order_id": order_id})
ThreadsOf(order_id) == {i \in DOMAIN threads : threads[i].order_id = order_id}

\* the unique index of chat_threads on (buyer_id, seller_id, order_id)
thread_key_taken_mutant(doc) == FALSE

thread_key_taken(doc) ==
    \E i \in DOMAIN threads :
        /\ threads[i].buyer_id = doc.buyer_id
        /\ threads[i].seller_id = doc.seller_id
        /\ threads[i].order_id = doc.order_id

\* POST /chat/threads up to get_or_create_thread_for_order: the guard, the
\* role check of the route, the order lookup and the ownership checks
create_thread_code(actor, order_id) ==
    IF get_current_user(actor) # OK THEN get_current_user(actor)
    ELSE IF users[actor].role \notin {"buyer", "seller"} THEN Forbidden
    ELSE IF order_id \notin DOMAIN orders THEN NotFound
    ELSE IF users[actor].role = "buyer" /\ orders[order_id].buyer_id # actor
    THEN Forbidden
    ELSE IF users[actor].role = "seller" /\ orders[order_id].seller_id # actor
    THEN Forbidden
    ELSE Created

ThreadRequest(actor, order_id) ==
    [kind |-> "create_thread", pc |-> "done", actor |-> actor,
     order_id |-> order_id, entry |-> 0, code |-> Created]

\* the route is a plain def endpoint: the checks and find_one are one step
create_thread_start(r, actor, order_id) ==
    LET code == create_thread_code(actor, order_id)
        existing == code = Created /\ ThreadsOf(order_id) # {}
    IN  /\ r \in FreeRequestIds
        /\ \/ /\ code # Created \/ existing
              /\ resp' = Resp("create_thread", actor, order_id, code)
              /\ UNCHANGED requests
           \/ /\ code = Created
              /\ ~existing
              /\ requests' =
                    r :> [ThreadRequest(actor, order_id) EXCEPT !.pc = "insert"]
                    @@ requests
              /\ UNCHANGED resp
        /\ UNCHANGED <<threads, messages, sessions, rooms, events, shopVars,
                       catalogVars, payVars, users, orders, shipments,
                       notifications, prefs, password_reset_tokens, clock>>

\* get_order_by_object_id and insert_one(thread_doc): DuplicateKeyError, which
\* nothing catches, when the key is taken
create_thread_insert(r) ==
    LET doc == NewThread(requests[r].order_id)
        code == IF thread_key_taken(doc) THEN Internal ELSE Created
    IN  /\ r \in RequestIds
        /\ requests[r].pc = "insert"
        /\ threads' = IF code = Created THEN Append(threads, doc) ELSE threads
        /\ requests' = [requests EXCEPT ![r].pc = "done", ![r].code = code]
        /\ resp' = Resp("create_thread", requests[r].actor, requests[r].order_id, code)
        /\ UNCHANGED <<messages, sessions, rooms, events, shopVars, catalogVars,
                       payVars, users, orders, shipments, notifications, prefs,
                       password_reset_tokens, clock>>

\* ensure_user_access_to_thread(db, thread_id, user): the status it raises
ensure_user_access_to_thread_code(thread_id, user_id, role) ==
    IF thread_id \notin DOMAIN threads THEN NotFound
    ELSE IF role = "buyer" /\ threads[thread_id].buyer_id # user_id THEN Forbidden
    ELSE IF role = "seller" /\ threads[thread_id].seller_id # user_id THEN Forbidden
    ELSE OK

\* preview = content if message_type == "text" else f"[{message_type}]"
message_preview(message_type, content) ==
    IF message_type = "text" THEN content ELSE "[" \o message_type \o "]"

\* message of add_message
NewMessage(thread_id, sender_id, message_type, content) ==
    [thread_id |-> thread_id, order_id |-> threads[thread_id].order_id,
     sender_id |-> sender_id, message_type |-> message_type, content |-> content]

\* recipient_id of add_message
recipient_id(thread_id, sender_id) ==
    IF sender_id = threads[thread_id].buyer_id
    THEN threads[thread_id].seller_id ELSE threads[thread_id].buyer_id

\* add_message: the message, the thread preview and the notification
add_message(thread_id, sender_id, message_type, content) ==
    /\ Len(messages) < MaxMessages
    /\ messages' = Append(messages, NewMessage(thread_id, sender_id, message_type, content))
    /\ threads' = [threads EXCEPT ![thread_id].last_message_preview =
                                     message_preview(message_type, content)]
    /\ notifications' =
          IF recipient_id(thread_id, sender_id) # sender_id
          THEN create_notification(notifications, recipient_id(thread_id, sender_id),
                                   "chat_message", threads[thread_id].order_id)
          ELSE notifications

\* GET /chat/threads/{thread_id}/messages
thread_access_code(actor, thread_id) ==
    IF get_current_user(actor) # OK THEN get_current_user(actor)
    ELSE ensure_user_access_to_thread_code(thread_id, actor, users[actor].role)

list_messages(actor, thread_id) ==
    /\ resp' = Resp("list_messages", actor, thread_id, thread_access_code(actor, thread_id))
    /\ UNCHANGED <<chatVars, shopVars, catalogVars, payVars, authVars, users, orders,
                   shipments, notifications, prefs>>

\* POST /chat/threads/{thread_id}/messages
send_message(actor, thread_id, message_type, content) ==
    LET code == IF thread_access_code(actor, thread_id) = OK THEN Created
                ELSE thread_access_code(actor, thread_id)
    IN  /\ resp' = Resp("send_message", actor, thread_id, code)
        /\ \/ /\ code # Created
              /\ UNCHANGED <<threads, messages, notifications>>
           \/ /\ code = Created
              /\ add_message(thread_id, actor, message_type, content)
        /\ UNCHANGED <<sessions, rooms, events, shopVars, catalogVars, payVars,
                       authVars, users, orders, shipments, prefs>>

-----------------------------------------------------------------------------
(* realtime/chat_namespace.py and realtime/manager.py *)

\* the namespace ChatNamespace is registered under, and the namespace
\* AsyncServer.emit uses when it is given none
ChatNamespaceName == "/ws/chat"
DefaultNamespace == "/"

Sids == {1, 2}

\* services/auth: an access token carries its subject; decode_access_token
\* gives the subject of a token this server signed and None for any other
AccessToken(sub) == [sub |-> sub, signed |-> TRUE]
ForgedToken(sub) == [sub |-> sub, signed |-> FALSE]

decode_access_token(token) == IF token.signed THEN token.sub ELSE None

find_user_by_identifier(identifier) ==
    IF identifier \in DOMAIN users THEN identifier ELSE None

\* thread ids as clients write them: the id of thread 1, the id of no
\* thread, and a text that is no ObjectId
ThreadIdTexts == {"t1", "t2", "zz"}
InvalidId == 0

\* ObjectId(thread_id)
ObjectId(text) ==
    IF text = "t1" THEN 1
    ELSE IF text = "t2" THEN 2
    ELSE InvalidId

thread_room(thread_id) == "thread:" \o thread_id

Event(sid, event, thread_id, content) ==
    [sid |-> sid, event |-> event, thread_id |-> thread_id, content |-> content]

\* the connections in a room of a namespace
Members(namespace, room) ==
    {sid \in Sids : [namespace |-> namespace, room |-> room, sid |-> sid] \in rooms}

RECURSIVE to_each(_, _)
to_each(sids, ev) ==
    IF sids = {} THEN <<>>
    ELSE LET sid == CHOOSE x \in sids : \A y \in sids : x <= y
         IN  <<[ev EXCEPT !.sid = sid]>> \o to_each(sids \ {sid}, ev)

\* server.emit(event, payload, room=thread_room(thread_id)): no namespace is
\* passed, so the room is looked up in the default namespace
emit_to_thread(event, thread_id, content) ==
    to_each(Members(DefaultNamespace, thread_room(thread_id)),
            Event(0, event, thread_id, content))

\* _error_message(exc) of what ensure_user_access_to_thread or ObjectId raised
error_message(code) ==
    IF code = NotFound THEN "Thread not found"
    ELSE IF code = Forbidden THEN "Not allowed to access this thread"
    ELSE "not a valid ObjectId"

\* the try block of on_chat_join and on_chat_send
session_access_code(sid, thread_id) ==
    IF ObjectId(thread_id) = InvalidId THEN InvalidInput
    ELSE ensure_user_access_to_thread_code(ObjectId(thread_id),
                                           sessions[sid].user_id, sessions[sid].role)

connect_reason(auth_payload) ==
    IF "token" \notin DOMAIN auth_payload THEN "auth_required"
    ELSE IF decode_access_token(auth_payload.token) = None THEN "auth_invalid"
    ELSE IF find_user_by_identifier(decode_access_token(auth_payload.token)) = None
    THEN "user_not_found"
    ELSE "connected"

on_connect(sid, auth_payload) ==
    LET reason == connect_reason(auth_payload)
    IN  /\ sid \in Sids \ DOMAIN sessions
        /\ sessions' =
              IF reason = "connected"
              THEN sid :> [user_id |-> auth_payload.token.sub,
                           role |-> users[auth_payload.token.sub].role] @@ sessions
              ELSE sessions
        /\ events' = <<>>
        /\ resp' = Resp("on_connect", sid, reason,
                        IF reason = "connected" THEN OK ELSE Unauthorized)
        /\ UNCHANGED <<threads, messages, rooms, shopVars, catalogVars, payVars,
                       authVars, users, orders, shipments, notifications, prefs>>

\* the client goes away: the server forgets the session and its rooms
on_disconnect(sid) ==
    /\ sid \in DOMAIN sessions
    /\ sessions' = [s \in DOMAIN sessions \ {sid} |-> sessions[s]]
    /\ rooms' = {m \in rooms : m.sid # sid}
    /\ events' = <<>>
    /\ resp' = Resp("on_disconnect", sid, "", OK)
    /\ UNCHANGED <<threads, messages, shopVars, catalogVars, payVars, authVars,
                   users, orders, shipments, notifications, prefs>>

on_chat_list(sid) ==
    /\ sid \in DOMAIN sessions
    /\ events' = <<Event(sid, "chat:threads", "", "")>>
    /\ resp' = Resp("on_chat_list", sid, "", OK)
    /\ UNCHANGED <<threads, messages, sessions, rooms, shopVars, catalogVars,
                   payVars, authVars, users, orders, shipments, notifications,
                   prefs>>

\* a handler that enters the room before the access check
on_chat_join_mutant(sid, data) ==
    LET missing == "thread_id" \notin DOMAIN data
        code == IF missing THEN InvalidInput
                ELSE session_access_code(sid, data.thread_id)
    IN  /\ sid \in DOMAIN sessions
        /\ resp' = Resp("on_chat_join", sid, Given(data, "thread_id", ""), code)
        /\ rooms' =
              IF ~missing
              THEN rooms \cup {[namespace |-> ChatNamespaceName,
                                room |-> thread_room(data.thread_id), sid |-> sid]}
              ELSE rooms
        /\ events' =
              IF missing
              THEN <<Event(sid, "chat:error", "", "thread_id is required")>>
              ELSE IF code # OK
              THEN <<Event(sid, "chat:error", data.thread_id, error_message(code))>>
              ELSE <<Event(sid, "chat:joined", data.thread_id, "")>>
        /\ UNCHANGED <<threads, messages, sessions, shopVars, catalogVars, payVars,
                       authVars, users, orders, shipments, notifications, prefs>>

\* chat:join
on_chat_join(sid, data) ==
    LET missing == "thread_id" \notin DOMAIN data
        code == IF missing THEN InvalidInput
                ELSE session_access_code(sid, data.thread_id)
    IN  /\ sid \in DOMAIN sessions
        /\ resp' = Resp("on_chat_join", sid, Given(data, "thread_id", ""), code)
        /\ rooms' =
              IF code = OK
              THEN rooms \cup {[namespace |-> ChatNamespaceName,
                                room |-> thread_room(data.thread_id), sid |-> sid]}
              ELSE rooms
        /\ events' =
              IF missing
              THEN <<Event(sid, "chat:error", "", "thread_id is required")>>
              ELSE IF code # OK
              THEN <<Event(sid, "chat:error", data.thread_id, error_message(code))>>
              ELSE <<Event(sid, "chat:joined", data.thread_id, "")>>
        /\ UNCHANGED <<threads, messages, sessions, shopVars, catalogVars, payVars,
                       authVars, users, orders, shipments, notifications, prefs>>

on_chat_leave(sid, data) ==
    /\ sid \in DOMAIN sessions
    /\ rooms' =
          IF "thread_id" \in DOMAIN data
          THEN rooms \ {[namespace |-> ChatNamespaceName,
                         room |-> thread_room(data.thread_id), sid |-> sid]}
          ELSE rooms
    /\ events' = <<>>
    /\ resp' = Resp("on_chat_leave", sid, Given(data, "thread_id", ""), OK)
    /\ UNCHANGED <<threads, messages, sessions, shopVars, catalogVars, payVars,
                   authVars, users, orders, shipments, notifications, prefs>>

\* persisted: whether add_message, which runs outside the try block, returned;
\* when it raises, the handler ends there and the connection stays
on_chat_send(sid, data, persisted) ==
    LET missing == "thread_id" \notin DOMAIN data \/ Given(data, "content", "") = ""
        code == IF missing THEN InvalidInput
                ELSE IF session_access_code(sid, data.thread_id) # OK
                THEN session_access_code(sid, data.thread_id)
                ELSE IF persisted THEN OK ELSE Internal
    IN  /\ sid \in DOMAIN sessions
        /\ resp' = Resp("on_chat_send", sid, Given(data, "thread_id", ""), code)
        /\ \/ /\ missing
              /\ events' = <<Event(sid, "chat:error", "", "Missing thread_id or content")>>
              /\ UNCHANGED <<threads, messages, notifications>>
           \/ /\ ~missing
              /\ code \notin {OK, Internal}
              /\ events' = <<Event(sid, "chat:error", data.thread_id, error_message(code))>>
              /\ UNCHANGED <<threads, messages, notifications>>
           \/ /\ code = Internal
              /\ events' = <<>>
              /\ UNCHANGED <<threads, messages, notifications>>
           \/ /\ code = OK
              /\ add_message(ObjectId(data.thread_id), sessions[sid].user_id,
                             Given(data, "message_type", "text"), data.content)
              /\ events' = emit_to_thread("chat:message", data.thread_id, data.content)
        /\ UNCHANGED <<sessions, rooms, shopVars, catalogVars, payVars, authVars,
                       users, orders, shipments, prefs>>

-----------------------------------------------------------------------------
(* orders/service.py: checkout *)

SeedAddresses ==
    {[id |-> "a1", user_id |-> "b1", is_default |-> FALSE],
     [id |-> "a2", user_id |-> "b2", is_default |-> FALSE]}
AddressIdInputs == {"a1", "a2"}

\* users/service.py get_address_by_id: the address must belong to the caller
get_address_by_id_code(user_id, address_id) ==
    IF \E a \in addresses : a.id = address_id /\ a.user_id = user_id
    THEN OK ELSE NotFound

\* _ensure_single_seller: the status it raises, OK when it returns a seller
ensure_single_seller_mutant(current, new_seller) ==
    IF new_seller = None THEN InvalidInput ELSE OK

ensure_single_seller(current, new_seller) ==
    IF new_seller = None THEN InvalidInput
    ELSE IF current = None THEN OK
    ELSE IF current # new_seller THEN InvalidInput
    ELSE OK

\* _build_order_items, line by line: the status of the first line that
\* fails, OK when every line passes
RECURSIVE build_order_items_code(_, _, _)
build_order_items_code(items, i, seller_id) ==
    IF i > Len(items)
    THEN IF seller_id = None THEN InvalidInput ELSE OK
    ELSE LET pcode == get_product_with_variant_code(items[i].product_id,
                                                    items[i].variant_id)
             new_seller == products[items[i].product_id].seller_id
         IN  IF pcode # OK THEN pcode
             ELSE IF ensure_single_seller(seller_id, new_seller) # OK
                  THEN ensure_single_seller(seller_id, new_seller)
             ELSE build_order_items_code(items, i + 1,
                                         IF seller_id = None THEN new_seller
                                         ELSE seller_id)

order_items_mutant(items) ==
    [i \in 1..(Len(items) - 1) |->
        [product_id |-> items[i].product_id,
         variant_id |-> items[i].variant_id,
         quantity |-> items[i].quantity,
         price |-> items[i].price]]

order_items(items) ==
    [i \in 1..Len(items) |->
        [product_id |-> items[i].product_id,
         variant_id |-> items[i].variant_id,
         quantity |-> items[i].quantity,
         price |-> IF items[i].price # 0 THEN items[i].price
                   ELSE unit_price(items[i].product_id, items[i].variant_id)]]

RECURSIVE subtotal(_, _)
subtotal(oitems, i) ==
    IF i > Len(oitems) THEN 0
    ELSE oitems[i].price * oitems[i].quantity + subtotal(oitems, i + 1)

\* a checkout that compares every line with the stock once more
create_order_from_cart_code_mutant(actor, address_id) ==
    IF require_buyer(actor) # OK THEN require_buyer(actor)
    ELSE IF cart_items(carts, actor) = <<>> THEN InvalidInput
    ELSE IF get_address_by_id_code(actor, address_id) # OK THEN NotFound
    ELSE IF build_order_items_code(cart_items(carts, actor), 1, None) # OK
         THEN build_order_items_code(cart_items(carts, actor), 1, None)
    ELSE IF \E i \in DOMAIN cart_items(carts, actor) :
               ExceedsStock(cart_items(carts, actor)[i].product_id,
                            cart_items(carts, actor)[i].variant_id,
                            cart_items(carts, actor)[i].quantity)
         THEN InvalidInput
    ELSE OK

create_order_from_cart_code(actor, address_id) ==
    IF require_buyer(actor) # OK THEN require_buyer(actor)
    ELSE IF cart_items(carts, actor) = <<>> THEN InvalidInput
    ELSE IF get_address_by_id_code(actor, address_id) # OK THEN NotFound
    ELSE build_order_items_code(cart_items(carts, actor), 1, None)

create_order_from_cart(actor, address_id) ==
    LET code == create_order_from_cart_code(actor, address_id)
        items == cart_items(carts, actor)
        oitems == order_items(items)
        seller_id == products[items[1].product_id].seller_id
        order_id == Len(orders) + 1
    IN  /\ resp' = Resp("create_order_from_cart", actor,
                        IF code = OK THEN order_id ELSE 0, code)
        /\ \/ /\ code \in {Unauthorized, Forbidden}
              /\ UNCHANGED <<orders, carts, notifications>>
           \/ /\ code \in {InvalidInput, NotFound}
              /\ carts' = ensure_cart(carts, actor)
              /\ UNCHANGED <<orders, notifications>>
           \/ /\ code = OK
              /\ Len(orders) < MaxOrders
              /\ orders' = Append(orders,
                                  NewOrder(actor, seller_id, oitems,
                                           subtotal(oitems, 1), order_id))
              /\ carts' = clear_cart_of(carts, actor)
              /\ notifications' =
                    create_notification(
                        create_notification(notifications, actor,
                                            "order_created", order_id),
                        seller_id, "order_new", order_id)
        /\ UNCHANGED <<chatVars, shopVars, payVars, authVars, users, shipments, prefs, addresses, products,
                       inventory_logs, item_seq>>

-----------------------------------------------------------------------------
(* users/service.py: addresses. The routes are plain def endpoints and     *)
(* each write is a separate database call, so each call is one step.       *)

AddressRequest(kind, actor, address_id) ==
    [kind |-> kind, pc |-> "done", actor |-> actor, address_id |-> address_id,
     code |-> OK]

\* the _id insert_one gives the address of request r
NewAddressId(r) == "n" \o ToString(r)

\* address ids a request may name: every stored address
StoredAddressIds == {a.id : a \in addresses}

\* find_one_and_update({"_id": ..., "user_id": ...}, {"$set": {"is_default": v}})
set_is_default(as, user_id, address_id, value) ==
    {IF a.id = address_id /\ a.user_id = user_id
     THEN [a EXCEPT !.is_default = value] ELSE a : a \in as}

\* update_many({"user_id": ..., "_id": {"$ne": ...}}, {"$set": {"is_default": False}})
unset_others(as, user_id, address_id) ==
    {IF a.user_id = user_id /\ a.id # address_id
     THEN [a EXCEPT !.is_default = FALSE] ELSE a : a \in as}

\* the request ends with code, or goes on to unset the other addresses
address_written(r, req, code, goes_on) ==
    /\ requests' = r :> [req EXCEPT !.code = code,
                                    !.pc = IF goes_on THEN "unset_others" ELSE "done"]
                    @@ requests
    /\ resp' = IF goes_on THEN resp ELSE Resp(req.kind, req.actor, 0, code)

\* create_address up to insert_one
create_address_start(r, actor, is_default) ==
    LET code == get_current_user(actor)
        req == AddressRequest("create_address", actor, NewAddressId(r))
    IN  /\ r \in FreeRequestIds
        /\ addresses' =
              IF code = OK
              THEN addresses \cup {[id |-> NewAddressId(r), user_id |-> actor,
                                    is_default |-> is_default]}
              ELSE addresses
        /\ address_written(r, req, code, code = OK /\ is_default)
        /\ UNCHANGED <<chatVars, shopVars, payVars, users, orders, shipments, notifications,
                       prefs, products, inventory_logs, carts, item_seq,
                       password_reset_tokens, clock>>

address_code(actor, address_id) ==
    IF get_current_user(actor) # OK THEN get_current_user(actor)
    ELSE get_address_by_id_code(actor, address_id)

\* update_address up to find_one_and_update
update_address_start(r, actor, address_id, is_default) ==
    LET code == address_code(actor, address_id)
        req == AddressRequest("update_address", actor, address_id)
    IN  /\ r \in FreeRequestIds
        /\ addresses' = IF code = OK
                        THEN set_is_default(addresses, actor, address_id, is_default)
                        ELSE addresses
        /\ address_written(r, req, code, code = OK /\ is_default)
        /\ UNCHANGED <<chatVars, shopVars, payVars, users, orders, shipments, notifications,
                       prefs, products, inventory_logs, carts, item_seq,
                       password_reset_tokens, clock>>

\* set_default_address up to find_one_and_update
set_default_address_start(r, actor, address_id) ==
    LET code == address_code(actor, address_id)
        req == AddressRequest("set_default_address", actor, address_id)
    IN  /\ r \in FreeRequestIds
        /\ addresses' = IF code = OK
                        THEN set_is_default(addresses, actor, address_id, TRUE)
                        ELSE addresses
        /\ address_written(r, req, code, code = OK)
        /\ UNCHANGED <<chatVars, shopVars, payVars, users, orders, shipments, notifications,
                       prefs, products, inventory_logs, carts, item_seq,
                       password_reset_tokens, clock>>

\* the update_many that ends the three handlers
address_unset_others(r) ==
    /\ r \in RequestIds
    /\ requests[r].pc = "unset_others"
    /\ addresses' = unset_others(addresses, requests[r].actor, requests[r].address_id)
    /\ requests' = [requests EXCEPT ![r].pc = "done"]
    /\ resp' = Resp(requests[r].kind, requests[r].actor, 0, OK)
    /\ UNCHANGED <<chatVars, shopVars, payVars, users, orders, shipments, notifications,
                   prefs, products, inventory_logs, carts, item_seq,
                   password_reset_tokens, clock>>

-----------------------------------------------------------------------------
(* payments/service.py and payments/router.py *)

PaymentIds == 1..Len(payments)
ProviderInputs == {"momo", "vnpay"}

\* the statuses of an order for which initiate_payment refuses a new attempt
PaidStatusesMutant == {"cod_collected"}

PaidStatuses == {"paid", "cod_collected"}

\* update_many of _upsert_payment_record: pending attempts of the pair expire
expire_pending_mutant(ps, order_id, provider) == ps

expire_pending(ps, order_id, provider) ==
    [i \in 1..Len(ps) |->
        IF /\ ps[i].order_id = order_id
           /\ ps[i].provider = provider
           /\ ps[i].status = "pending"
        THEN [ps[i] EXCEPT !.status = "expired"]
        ELSE ps[i]]

\* request_id of a new attempt (uuid4): fresh, here the record's position
NewRequestId == Len(payments) + 1

\* amount stored with an attempt: int(total) for MoMo, the total for VNPay
payment_amount(order_id, provider) == orders[order_id].total_amount

upsert_payment_record(ps, order_id, provider) ==
    Append(expire_pending(ps, order_id, provider),
           [order_id |-> order_id,
            order_code |-> orders[order_id].order_code,
            provider |-> provider,
            amount |-> payment_amount(order_id, provider),
            transaction_id |-> None,
            request_id |-> NewRequestId,
            status |-> "pending"])

initiate_payment_code(actor, order_id, provider) ==
    IF require_buyer(actor) # OK THEN require_buyer(actor)
    ELSE IF order_id \notin OrderIds THEN NotFound
    ELSE IF orders[order_id].buyer_id # actor /\ users[actor].role # "admin"
         THEN Forbidden
    ELSE IF orders[order_id].payment_status \in PaidStatuses THEN InvalidInput
    ELSE IF provider \notin {"momo", "vnpay"} THEN InvalidInput
    ELSE OK

initiate_payment(actor, order_id, provider) ==
    LET code == initiate_payment_code(actor, order_id, provider)
    IN  /\ resp' = Resp("initiate_payment", actor, order_id, code)
        /\ \/ /\ code # OK
              /\ UNCHANGED payments
           \/ /\ code = OK
              /\ Len(payments) < MaxPayments
              /\ payments' = upsert_payment_record(payments, order_id, provider)
        /\ UNCHANGED <<chatVars, shopVars, catalogVars, authVars, users, orders, shipments,
                       notifications, prefs>>

\* HMAC keys of the gateways: momo_ipn_secret or momo_secret_key, and
\* vnpay_hash_secret. A signature is modelled by the key that made it.
MomoKey == "momo-key"
VnpayKey == "vnpay-key"

\* the stored attempt a webhook names; 0 when there is none
find_payment(order_code, provider, request_id) ==
    LET hits == {i \in PaymentIds : /\ payments[i].order_code = order_code
                                    /\ payments[i].provider = provider
                                    /\ payments[i].request_id = request_id}
    IN  IF hits = {} THEN 0 ELSE CHOOSE i \in hits : \A j \in hits : i <= j

Abs(x) == IF x < 0 THEN -x ELSE x

amount_mismatch_mutant(amount, total, unit) == Abs(amount - total * unit) > 2 * unit

\* abs(amount - order total) > 1, the amount given in 1/unit
amount_mismatch(amount, total, unit) == Abs(amount - total * unit) > unit

\* status a webhook gives the attempt and the order
webhook_status_mutant(success) == "paid"

webhook_status(success) == IF success THEN "paid" ELSE "failed"

\* a handler that answers a webhook whose outcome the attempt already has
\* without writing again
settle_payment_mutant(op, pid, success, transaction_id, paid_note, failed_note) ==
    /\ resp' = Resp(op, Anon, 0, OK)
    /\ payments' = [payments EXCEPT ![pid].status = webhook_status(success),
                                    ![pid].transaction_id = transaction_id]
    /\ IF payments[pid].status = webhook_status(success)
       THEN UNCHANGED <<orders, notifications>>
       ELSE /\ TimelineRoom(payments[pid].order_id, 1)
            /\ orders' = update_order_payment_status(
                             orders, payments[pid].order_id, webhook_status(success),
                             IF success THEN paid_note ELSE failed_note, None,
                             IF success THEN transaction_id ELSE None)
            /\ notifications' =
                  create_notification(notifications,
                                      orders[payments[pid].order_id].buyer_id,
                                      "payment_" \o webhook_status(success),
                                      payments[pid].order_id)
\* the writes of an accepted webhook: the attempt, the order and its
\* timeline, and the notifications
settle_payment(op, pid, success, transaction_id, paid_note, failed_note) ==
    LET order_id == payments[pid].order_id
        new_status == webhook_status(success)
    IN  /\ resp' = Resp(op, Anon, 0, OK)
        /\ TimelineRoom(order_id, 1)
        /\ payments' = [payments EXCEPT ![pid].status = new_status,
                                        ![pid].transaction_id = transaction_id]
        /\ orders' = update_order_payment_status(
                         orders, order_id, new_status,
                         IF success THEN paid_note ELSE failed_note, None,
                         IF success THEN transaction_id ELSE None)
        /\ notifications' =
              IF success
              THEN create_notification(
                       create_notification(notifications, orders[order_id].buyer_id,
                                           "payment_paid", order_id),
                       orders[order_id].seller_id, "payment_paid", order_id)
              ELSE create_notification(notifications, orders[order_id].buyer_id,
                                       "payment_failed", order_id)

reject_webhook(op, code) ==
    /\ resp' = Resp(op, Anon, 0, code)
    /\ UNCHANGED <<payments, orders, notifications>>

MomoPayload(orderId, requestId, amount, resultCode, signature, transId) ==
    [orderId |-> orderId, requestId |-> requestId, amount |-> amount,
     resultCode |-> resultCode, signature |-> signature, transId |-> transId]

\* MoMo IPN bodies: well-formed ones of either outcome, and bodies with one
\* thing wrong: an unknown order code or request id, an amount off by 2, a
\* signature missing or made with another key
MomoPayloads ==
    {MomoPayload(1, r, 101, c, MomoKey, t) :
        r \in PaymentIds, c \in {0, 99}, t \in {None, "T1"}}
    \cup {MomoPayload(2, r, 101, 0, MomoKey, "T1") : r \in PaymentIds}
    \cup {MomoPayload(1, Len(payments) + 1, 101, 0, MomoKey, "T1")}
    \cup {MomoPayload(1, r, 102, 0, MomoKey, "T1") : r \in PaymentIds}
    \cup {MomoPayload(1, r, 101, 0, sig, "T1") :
             r \in PaymentIds, sig \in {None, VnpayKey}}

handle_momo_webhook_code(payload) ==
    LET pid == find_payment(payload.orderId, "momo", payload.requestId)
    IN  IF payload.signature = None THEN InvalidInput
        ELSE IF payload.signature # MomoKey THEN InvalidInput
        ELSE IF pid = 0 THEN NotFound
        ELSE IF amount_mismatch(payload.amount,
                                orders[payments[pid].order_id].total_amount, 1)
             THEN InvalidInput
        ELSE OK

handle_momo_webhook(payload) ==
    LET code == handle_momo_webhook_code(payload)
    IN  /\ \/ /\ code # OK
              /\ reject_webhook("handle_momo_webhook", code)
           \/ /\ code = OK
              /\ settle_payment("handle_momo_webhook",
                                find_payment(payload.orderId, "momo", payload.requestId),
                                payload.resultCode = 0, payload.transId,
                                "MoMo payment succeeded", "MoMo payment failed")
        /\ UNCHANGED <<chatVars, shopVars, catalogVars, authVars, users, shipments, prefs>>

VnpayParam(order_code, txn_ref, amount, response_code, secure_hash, transaction_no) ==
    [vnp_OrderInfo |-> order_code, vnp_TxnRef |-> txn_ref, vnp_Amount |-> amount,
     vnp_ResponseCode |-> response_code, vnp_SecureHash |-> secure_hash,
     vnp_TransactionNo |-> transaction_no]

\* VNPay IPN parameters, well-formed or with one thing wrong; vnp_Amount is
\* in hundredths
VnpayParams ==
    {VnpayParam(1, r, 10100, c, VnpayKey, t) :
        r \in PaymentIds, c \in {"00", "24"}, t \in {None, "T2"}}
    \cup {VnpayParam(2, r, 10100, "00", VnpayKey, "T2") : r \in PaymentIds}
    \cup {VnpayParam(1, Len(payments) + 1, 10100, "00", VnpayKey, "T2")}
    \cup {VnpayParam(1, r, 10101, "00", VnpayKey, "T2") : r \in PaymentIds}
    \cup {VnpayParam(1, r, 10100, "00", sig, "T2") :
             r \in PaymentIds, sig \in {None, MomoKey}}

handle_vnpay_webhook_code(params) ==
    LET pid == find_payment(params.vnp_OrderInfo, "vnpay", params.vnp_TxnRef)
    IN  IF params.vnp_SecureHash # VnpayKey THEN InvalidInput
        ELSE IF pid = 0 THEN NotFound
        ELSE IF amount_mismatch(params.vnp_Amount,
                                orders[payments[pid].order_id].total_amount, 100)
             THEN InvalidInput
        ELSE OK

handle_vnpay_webhook(params) ==
    LET code == handle_vnpay_webhook_code(params)
    IN  /\ \/ /\ code # OK
              /\ reject_webhook("handle_vnpay_webhook", code)
           \/ /\ code = OK
              /\ settle_payment("handle_vnpay_webhook",
                                find_payment(params.vnp_OrderInfo, "vnpay",
                                             params.vnp_TxnRef),
                                params.vnp_ResponseCode = "00",
                                params.vnp_TransactionNo,
                                "VNPay payment succeeded", "VNPay payment failed")
        /\ UNCHANGED <<chatVars, shopVars, catalogVars, authVars, users, shipments, prefs>>

-----------------------------------------------------------------------------
(* main.py: the legacy forgot-password / reset-password routes. Both are   *)
(* plain def endpoints, served from a thread pool, so requests interleave  *)
(* between their database round trips: each round trip is one step.        *)

\* timedelta(minutes=30) of expires_at
TokenTTL == 30

EmailInputs == {"b1", "nobody"}
NewPasswordInputs == {1, 2}
\* codes a reset request may present: every code issued or still to be issued
TokenInputs == 1..MaxRequests

\* services/auth, known by its contract only: a new code per call, stored as
\* a hash that only this code matches, and a password hash
generate_reset_token(r) == r
reset_token_hash(code) == code + 100
match_reset_token(candidate, token_hash) == reset_token_hash(candidate) = token_hash
hash_password(password) == password + 1000

\* users.find_one({"email": email})
find_user(email) == IF email \in UserIds THEN email ELSE None

NewRequest(kind, email, token, new_password) ==
    [kind |-> kind, pc |-> "done", email |-> email, token |-> token,
     new_password |-> new_password, entry |-> 0, code |-> 0,
     changed |-> FALSE, late |-> FALSE]

TokenIndexes == 1..Len(password_reset_tokens)

\* positions of the stored tokens with this _id
TokensWithId(id) == {i \in TokenIndexes : password_reset_tokens[i].id = id}

\* tokens.update_one({"_id": id}, {"$set": {"used": True}})
mark_used(tokens, id) ==
    [i \in 1..Len(tokens) |->
        IF tokens[i].id = id THEN [tokens[i] EXCEPT !.used = TRUE] ELSE tokens[i]]

\* forgot_password up to and including update_many: the user's unused tokens
\* are all marked used
forgot_password_start(r, email) ==
    LET user == find_user(email)
    IN  /\ r \in FreeRequestIds
        /\ \/ /\ user = None
              /\ requests' = r :> [NewRequest("forgot_password", email, 0, 0)
                                     EXCEPT !.code = InvalidInput] @@ requests
              /\ resp' = Resp("forgot_password", email, r, InvalidInput)
              /\ UNCHANGED password_reset_tokens
           \/ /\ user # None
              /\ requests' = r :> [NewRequest("forgot_password", email, 0, 0)
                                     EXCEPT !.pc = "insert"] @@ requests
              /\ password_reset_tokens' =
                    [i \in TokenIndexes |->
                        IF password_reset_tokens[i].user_id = user
                        THEN [password_reset_tokens[i] EXCEPT !.used = TRUE]
                        ELSE password_reset_tokens[i]]
              /\ UNCHANGED resp
        /\ UNCHANGED <<chatVars, shopVars, catalogVars, payVars, users, orders, shipments,
                       notifications, prefs, clock>>

\* generate_reset_token and insert_one
forgot_password_insert(r) ==
    /\ r \in RequestIds
    /\ requests[r].pc = "insert"
    /\ password_reset_tokens' =
          Append(password_reset_tokens,
                 [id |-> r, user_id |-> requests[r].email,
                  token_hash |-> reset_token_hash(generate_reset_token(r)),
                  expires_at |-> clock + TokenTTL, used |-> FALSE])
    /\ requests' = [requests EXCEPT ![r].pc = "send"]
    /\ UNCHANGED <<chatVars, shopVars, catalogVars, payVars, users, orders, shipments,
                   notifications, prefs, clock, resp>>

\* send_password_reset_code: returns, or raises RuntimeError and the new
\* token is deleted
forgot_password_send(r, sent) ==
    /\ r \in RequestIds
    /\ requests[r].pc = "send"
    /\ requests' = [requests EXCEPT ![r].pc = "done",
                                    ![r].code = IF sent THEN OK ELSE Internal]
    /\ resp' = Resp("forgot_password", requests[r].email, r,
                    IF sent THEN OK ELSE Internal)
    /\ password_reset_tokens' =
          IF sent THEN password_reset_tokens
          ELSE SelectSeq(password_reset_tokens, LAMBDA t : t.id # r)
    /\ UNCHANGED <<chatVars, shopVars, catalogVars, payVars, users, orders, shipments,
                   notifications, prefs, clock>>

\* position of the newest unused token of the user (sort created_at desc);
\* 0 when there is none
latest_unused_token(user) ==
    LET hits == {i \in TokenIndexes : /\ password_reset_tokens[i].user_id = user
                                      /\ ~password_reset_tokens[i].used}
    IN  IF hits = {} THEN 0 ELSE CHOOSE i \in hits : \A j \in hits : j <= i

\* reset_password up to the expiry check: the token is read, matched against
\* the code and its expiry compared with the clock
reset_password_start(r, email, token, new_password) ==
    LET user == find_user(email)
        idx == latest_unused_token(user)
        req == [NewRequest("reset_password", email, token, new_password)
                  EXCEPT !.late = \E i \in TokenIndexes :
                      /\ password_reset_tokens[i].used
                      /\ match_reset_token(token, password_reset_tokens[i].token_hash)]
        rejected == IF user = None \/ idx = 0 THEN TRUE
                    ELSE ~match_reset_token(token, password_reset_tokens[idx].token_hash)
    IN  /\ r \in FreeRequestIds
        /\ \/ /\ rejected
              /\ requests' = r :> [req EXCEPT !.code = InvalidInput] @@ requests
              /\ resp' = Resp("reset_password", email, r, InvalidInput)
           \/ /\ ~rejected
              /\ requests' =
                    r :> [req EXCEPT
                            !.entry = password_reset_tokens[idx].id,
                            !.pc = IF password_reset_tokens[idx].expires_at < clock
                                   THEN "expire" ELSE "set_password"] @@ requests
              /\ UNCHANGED resp
        /\ UNCHANGED <<chatVars, shopVars, catalogVars, payVars, users, orders, shipments,
                       notifications, prefs, password_reset_tokens, clock>>

\* the expired token is marked used and the request fails
reset_password_expire(r) ==
    /\ r \in RequestIds
    /\ requests[r].pc = "expire"
    /\ password_reset_tokens' = mark_used(password_reset_tokens, requests[r].entry)
    /\ requests' = [requests EXCEPT ![r].pc = "done", ![r].code = InvalidInput]
    /\ resp' = Resp("reset_password", requests[r].email, r, InvalidInput)
    /\ UNCHANGED <<chatVars, shopVars, catalogVars, payVars, users, orders, shipments,
                   notifications, prefs, clock>>

\* users.update_one: the new password hash is stored
reset_password_set(r) ==
    /\ r \in RequestIds
    /\ requests[r].pc = "set_password"
    /\ users' = [users EXCEPT ![requests[r].email].hashed_password =
                                 hash_password(requests[r].new_password)]
    /\ requests' = [requests EXCEPT ![r].pc = "mark_used", ![r].changed = TRUE]
    /\ UNCHANGED <<chatVars, shopVars, catalogVars, payVars, orders, shipments, notifications,
                   prefs, password_reset_tokens, clock, resp>>

\* tokens.update_one: the token is marked used and the request succeeds
reset_password_mark(r) ==
    /\ r \in RequestIds
    /\ requests[r].pc = "mark_used"
    /\ password_reset_tokens' = mark_used(password_reset_tokens, requests[r].entry)
    /\ requests' = [requests EXCEPT ![r].pc = "done", ![r].code = OK]
    /\ resp' = Resp("reset_password", requests[r].email, r, OK)
    /\ UNCHANGED <<chatVars, shopVars, catalogVars, payVars, users, orders, shipments,
                   notifications, prefs, clock>>

\* time passes: more than the lifetime of a token
Tick ==
    /\ clock < MaxTicks * (TokenTTL + 1)
    /\ clock' = clock + TokenTTL + 1
    /\ UNCHANGED <<chatVars, shopVars, catalogVars, payVars, users, orders, shipments,
                   notifications, prefs, password_reset_tokens, requests, resp>>

-----------------------------------------------------------------------------
(* users/dependencies.py and users/router.py: bearer tokens and login *)

\* services/auth.verify_password
verify_password(password, hashed_password) == hash_password(password) = hashed_password

\* the user get_current_user resolves the request's bearer token to, Anon
\* when the token is missing, does not decode or names no user
bearer(headers) ==
    IF "token" \notin DOMAIN headers THEN Anon
    ELSE IF decode_access_token(headers.token) = None THEN Anon
    ELSE IF find_user_by_identifier(decode_access_token(headers.token)) = None THEN Anon
    ELSE find_user_by_identifier(decode_access_token(headers.token))

NoToken == [sub |-> None, signed |-> FALSE]

\* issue_access_token(user): create_access_token(token_subject(user))
issue_access_token(user_id) == AccessToken(user_id)

authenticate_user_code(identifier, password) ==
    IF find_user_by_identifier(identifier) = None THEN Unauthorized
    ELSE IF ~verify_password(password, users[identifier].hashed_password)
    THEN Unauthorized
    ELSE IF ~users[identifier].is_active THEN Forbidden
    ELSE OK

\* POST /api/v2/auth/login; the response carries the token
login_user(identifier, password) ==
    LET code == authenticate_user_code(identifier, password)
    IN  /\ resp' = Resp("login_user", identifier,
                        IF code = OK THEN issue_access_token(identifier) ELSE NoToken,
                        code)
        /\ UNCHANGED <<chatVars, shopVars, catalogVars, payVars, authVars, users,
                       orders, shipments, notifications, prefs>>

\* GET /users/me, guarded by get_current_user alone
get_profile(headers) ==
    /\ resp' = Resp("get_profile", bearer(headers), 0, get_current_user(bearer(headers)))
    /\ UNCHANGED <<chatVars, shopVars, catalogVars, payVars, authVars, users,
                   orders, shipments, notifications, prefs>>

-----------------------------------------------------------------------------
(* Specification of the order lifecycle: one order that checkout has just  *)
(* created, and every order, refund and shipping route on it.              *)

SeedOrders == <<NewOrder("b1", "s1", <<>>, 100, 1)>>

InitOrders ==
    /\ users = SeedUsers
    /\ orders = SeedOrders
    /\ shipments = <<>>
    /\ notifications = <<>>
    /\ prefs = {}
    /\ addresses = SeedAddresses
    /\ products = SeedProducts(0)
    /\ inventory_logs = <<>>
    /\ carts = NoCarts
    /\ item_seq = 0
    /\ payments = <<>>
    /\ password_reset_tokens = <<>>
    /\ clock = 0
    /\ requests = NoRequests
    /\ favorites = {}
    /\ sellers = <<>>
    /\ categories = <<>>
    /\ threads = <<>>
    /\ messages = <<>>
    /\ sessions = NoSessions
    /\ rooms = {}
    /\ events = <<>>
    /\ resp = NoResp

NextOrders ==
    \/ \E a \in Actors, o \in OrderIdInputs : cancel_order(a, o)
    \/ \E a \in Actors, o \in OrderIds : seller_confirm_order(a, o)
    \/ \E a \in Actors, o \in OrderIds : seller_ready_to_ship(a, o)
    \/ \E a \in Actors, o \in OrderIds : seller_mark_delivered(a, o)
    \/ \E a \in Actors, o \in OrderIds : admin_refund_order(a, o)
    \/ \E a \in Actors, o \in OrderIds : create_shipment(a, o)
    \/ \E a \in Actors, o \in OrderIds : update_shipment_status_manual(a, o)
    \/ \E t \in TrackingInputs : shipping_webhook(t)

SpecOrders == InitOrders /\ [][NextOrders]_vars

-----------------------------------------------------------------------------
(* Specification of concurrent shipment creation on the seeded order.      *)

NextShipRace ==
    \/ \E r \in FreeRequestIds, a \in {"s1", "s2"}, o \in OrderIdInputs :
          create_shipment_start(r, a, o)
    \/ \E r \in RequestIds : create_shipment_insert(r)
    \/ \E r \in RequestIds : create_shipment_finish(r)
    \/ \E a \in {"s1"}, o \in OrderIds : seller_ready_to_ship(a, o)

SpecShipRace == InitOrders /\ [][NextShipRace]_vars

-----------------------------------------------------------------------------
(* Specification of notification preferences: buyer b1 sets preferences,   *)
(* fills the cart and checks out, which raises order_created for b1.       *)

InitNotify ==
    /\ users = SeedUsers
    /\ orders = <<>>
    /\ shipments = <<>>
    /\ notifications = <<>>
    /\ prefs = {}
    /\ addresses = SeedAddresses
    /\ products = SeedProducts(2)
    /\ inventory_logs = <<>>
    /\ carts = NoCarts
    /\ item_seq = 0
    /\ payments = <<>>
    /\ password_reset_tokens = <<>>
    /\ clock = 0
    /\ requests = NoRequests
    /\ favorites = {}
    /\ sellers = <<>>
    /\ categories = <<>>
    /\ threads = <<>>
    /\ messages = <<>>
    /\ sessions = NoSessions
    /\ rooms = {}
    /\ events = <<>>
    /\ resp = NoResp

NextNotify ==
    \/ \E ev \in EventInputs, ch \in ChannelInputs, en \in BOOLEAN :
          update_preference("b1", ev, ch, en)
    \/ update_preference(Anon, "order_created", "in_app", FALSE)
    \/ add_item("b1", "p1", "v1", 1)
    \/ create_order_from_cart("b1", "a1")

SpecNotify == InitNotify /\ [][NextNotify]_vars

-----------------------------------------------------------------------------
(* Specification of favorites: buyer b1 adds and removes favorites while   *)
(* seller s1 edits product p1 and time passes.                             *)

NextFav ==
    \/ \E a \in {"b1", "s1"}, p \in ProductIdInputs : add_favorite(a, p)
    \/ \E p \in ProductIds : remove_favorite("b1", p)
    \/ \E payload \in ProductUpdateInputs : update_product("s1", "p1", payload)
    \/ update_product("s2", "p1", [name |-> <<"n", "2">>])
    \/ Tick

SpecFav == InitOrders /\ [][NextFav]_vars

-----------------------------------------------------------------------------
(* Specification of inventory: the sellers, the admin and a buyer adjust   *)
(* the stock of the variants of the seeded products, one call at a time.   *)

InitInv ==
    /\ users = SeedUsers
    /\ orders = <<>>
    /\ shipments = <<>>
    /\ notifications = <<>>
    /\ prefs = {}
    /\ addresses = SeedAddresses
    /\ products = InventoryProducts
    /\ inventory_logs = <<>>
    /\ carts = NoCarts
    /\ item_seq = 0
    /\ payments = <<>>
    /\ password_reset_tokens = <<>>
    /\ clock = 0
    /\ requests = NoRequests
    /\ favorites = {}
    /\ sellers = <<>>
    /\ categories = <<>>
    /\ threads = <<>>
    /\ messages = <<>>
    /\ sessions = NoSessions
    /\ rooms = {}
    /\ events = <<>>
    /\ resp = NoResp

InventoryCallers == {"s1", "s2", "adm", "b1", Anon}

NextInv ==
    \E a \in InventoryCallers, p \in ProductIdInputs,
       v \in InventoryVariantInputs, d \in DeltaInputs :
        adjust_inventory(a, p, v, d)

SpecInv == InitInv /\ [][NextInv]_vars

-----------------------------------------------------------------------------
(* Specification of slugs: the admin creates categories, seller s1 creates *)
(* products next to the two seeded ones, and three users apply as sellers. *)

NextSlug ==
    \/ \E payload \in CategoryCreateInputs : create_category("adm", payload)
    \/ create_category("b1", [name |-> ShopName])
    \/ \E payload \in ProductCreateInputs : create_product("s1", payload)
    \/ \E app \in ApplicationInputs : submit_application(app[1], app[2])

SpecSlug == InitOrders /\ [][NextSlug]_vars

-----------------------------------------------------------------------------
(* Specification of seller applications: two buyers apply and re-apply     *)
(* while the admin moderates their records.                                *)

NextSeller ==
    \/ \E a \in {"b1", "b2"}, n \in ShopNameInputs : submit_application(a, n)
    \/ submit_application(Anon, ShopName)
    \/ \E i \in 1..MaxSellers, st \in SellerStatus, notes \in VerificationNotesInputs :
          admin_update_seller_status("adm", i, st, notes)
    \/ admin_update_seller_status("b2", 1, "approved", None)

SpecSeller == InitOrders /\ [][NextSeller]_vars

-----------------------------------------------------------------------------
(* Specification of seller moderation: two buyers apply, the admin changes *)
(* the status of their records, and demotes or deactivates buyer b1.       *)

NextModeration ==
    \/ \E a \in {"b1", "b2"} : submit_application(a, ShopName)
    \/ \E i \in 1..MaxSellers, st \in SellerStatus :
          admin_update_seller_status("adm", i, st, None)
    \/ admin_update_seller_status("s1", 1, "approved", None)
    \/ \E payload \in UserRoleInputs : admin_update_user_role("adm", "b1", payload)
    \/ admin_update_user_role("b2", "b1", [role |-> "admin"])

SpecModeration == InitOrders /\ [][NextModeration]_vars

-----------------------------------------------------------------------------
(* Specification of chat threads: the buyer and the seller of the seeded   *)
(* order, and callers who are neither, create its thread concurrently, and *)
(* read and write messages.                                                *)

ChatCallers == {"b1", "s1", "b2", "adm"}

NextThread ==
    \/ \E r \in FreeRequestIds, a \in ChatCallers : create_thread_start(r, a, 1)
    \/ \E r \in FreeRequestIds : create_thread_start(r, "b1", 2)
    \/ \E r \in RequestIds : create_thread_insert(r)
    \/ \E a \in ChatCallers \cup {Anon}, t \in ThreadIdInputs : list_messages(a, t)
    \/ \E a \in ChatCallers : send_message(a, 1, "text", "hi")
    \/ send_message("b1", 1, "image", "yo")

SpecThread == InitOrders /\ [][NextThread]_vars

-----------------------------------------------------------------------------
(* Specification of the realtime chat gateway: two connections, opened by  *)
(* the parties of the seeded thread, by an outsider and by an admin, join, *)
(* leave and send, and read the thread over REST.                          *)

SeedThreads ==
    <<[order_id |-> 1, buyer_id |-> "b1", seller_id |-> "s1",
       last_message_preview |-> ""]>>

InitChat ==
    /\ users = SeedUsers
    /\ orders = SeedOrders
    /\ shipments = <<>>
    /\ notifications = <<>>
    /\ prefs = {}
    /\ addresses = SeedAddresses
    /\ products = SeedProducts(0)
    /\ inventory_logs = <<>>
    /\ carts = NoCarts
    /\ item_seq = 0
    /\ payments = <<>>
    /\ password_reset_tokens = <<>>
    /\ clock = 0
    /\ requests = NoRequests
    /\ favorites = {}
    /\ sellers = <<>>
    /\ categories = <<>>
    /\ threads = SeedThreads
    /\ messages = <<>>
    /\ sessions = NoSessions
    /\ rooms = {}
    /\ events = <<>>
    /\ resp = NoResp

ConnectTokens ==
    {AccessToken(u) : u \in ChatCallers} \cup {AccessToken("ghost"), ForgedToken("b1")}

NextChat ==
    \/ \E sid \in Sids, token \in ConnectTokens : on_connect(sid, [token |-> token])
    \/ \E sid \in Sids : on_connect(sid, <<>>)
    \/ \E sid \in Sids : on_disconnect(sid)
    \/ \E sid \in Sids : on_chat_list(sid)
    \/ \E sid \in Sids, t \in ThreadIdTexts : on_chat_join(sid, [thread_id |-> t])
    \/ \E sid \in Sids : on_chat_join(sid, <<>>)
    \/ \E sid \in Sids : on_chat_leave(sid, [thread_id |-> "t1"])
    \/ \E sid \in Sids : on_chat_leave(sid, <<>>)
    \/ \E sid \in Sids, t \in ThreadIdTexts :
          on_chat_send(sid, [thread_id |-> t, content |-> "hi"], TRUE)
    \/ \E sid \in Sids : on_chat_send(sid, [thread_id |-> "t1", content |-> "hi"], FALSE)
    \/ \E sid \in Sids : on_chat_send(sid, [thread_id |-> "t1", content |-> ""], TRUE)
    \/ \E sid \in Sids : on_chat_send(sid, [content |-> "hi"], TRUE)
    \/ \E a \in ChatCallers : list_messages(a, 1)

SpecChat == InitChat /\ [][NextChat]_vars

-----------------------------------------------------------------------------
(* Specification of authentication: registered users log in, and requests  *)
(* with good, forged and stale tokens reach routes behind each gate while  *)
(* an admin changes roles and deactivates accounts.                        *)

RegisteredPassword == 1
PasswordInputs == {1, 2}

InitAuth ==
    /\ users = [u \in UserIds |->
                  [SeedUsers[u] EXCEPT !.hashed_password =
                                          hash_password(RegisteredPassword)]]
    /\ orders = SeedOrders
    /\ shipments = <<>>
    /\ notifications = <<>>
    /\ prefs = {}
    /\ addresses = SeedAddresses
    /\ products = SeedProducts(0)
    /\ inventory_logs = <<>>
    /\ carts = NoCarts
    /\ item_seq = 0
    /\ payments = <<>>
    /\ password_reset_tokens = <<>>
    /\ clock = 0
    /\ requests = NoRequests
    /\ favorites = {}
    /\ sellers = <<>>
    /\ categories = <<>>
    /\ threads = <<>>
    /\ messages = <<>>
    /\ sessions = NoSessions
    /\ rooms = {}
    /\ events = <<>>
    /\ resp = NoResp

AuthUsers == {"b1", "s1", "adm"}
BearerTokens ==
    {AccessToken(u) : u \in AuthUsers} \cup {AccessToken("ghost"), ForgedToken("adm")}
AuthRoleInputs ==
    {[role |-> "buyer"], [role |-> "seller", is_active |-> FALSE],
     [role |-> "seller", is_active |-> TRUE]}

\* the routes of the specification, called with a bearer token or without
AuthRoutes(headers) ==
    \/ get_profile(headers)
    \/ cancel_order(bearer(headers), 1)
    \/ seller_confirm_order(bearer(headers), 1)
    \/ \E u \in AuthUsers, payload \in AuthRoleInputs :
          admin_update_user_role(bearer(headers), u, payload)

NextAuth ==
    \/ \E u \in AuthUsers \cup {"ghost"}, p \in PasswordInputs : login_user(u, p)
    \/ \E token \in BearerTokens : AuthRoutes([token |-> token])
    \/ AuthRoutes(<<>>)

SpecAuth == InitAuth /\ [][NextAuth]_vars

-----------------------------------------------------------------------------
(* Specification of the seller dashboard: the seller of the seeded order   *)
(* and a buyer apply for a shop, the admin moderates, the order moves on,  *)
(* and sellers ask for their summary.                                      *)

NextDashboard ==
    \/ \E a \in {"s1", "b1"} : submit_application(a, ShopName)
    \/ \E i \in 1..MaxSellers, st \in SellerStatus :
          admin_update_seller_status("adm", i, st, None)
    \/ \E a \in {"s1", "s2", "b1", Anon} : seller_dashboard_summary(a)
    \/ seller_confirm_order("s1", 1)
    \/ cancel_order("b1", 1)

SpecDashboard == InitOrders /\ [][NextDashboard]_vars

-----------------------------------------------------------------------------
(* Specification of the address book of buyer b1.                          *)

NextAddr ==
    \/ \E r \in FreeRequestIds, d \in BOOLEAN : create_address_start(r, "b1", d)
    \/ \E r \in FreeRequestIds : create_address_start(r, Anon, TRUE)
    \/ \E r \in FreeRequestIds, i \in StoredAddressIds, d \in BOOLEAN :
          update_address_start(r, "b1", i, d)
    \/ \E r \in FreeRequestIds, i \in StoredAddressIds :
          set_default_address_start(r, "b1", i)
    \/ \E r \in RequestIds : address_unset_others(r)

SpecAddr == InitOrders /\ [][NextAddr]_vars

-----------------------------------------------------------------------------
(* Specification of cart and checkout: buyer b1 fills a cart from the      *)
(* products of two sellers and checks out.                                 *)

CartBuyer == "b1"

InitCart ==
    /\ users = SeedUsers
    /\ orders = <<>>
    /\ shipments = <<>>
    /\ notifications = <<>>
    /\ prefs = {}
    /\ addresses = SeedAddresses
    /\ \E stock \in StockInputs : products = SeedProducts(stock)
    /\ inventory_logs = <<>>
    /\ carts = NoCarts
    /\ item_seq = 0
    /\ payments = <<>>
    /\ password_reset_tokens = <<>>
    /\ clock = 0
    /\ requests = NoRequests
    /\ favorites = {}
    /\ sellers = <<>>
    /\ categories = <<>>
    /\ threads = <<>>
    /\ messages = <<>>
    /\ sessions = NoSessions
    /\ rooms = {}
    /\ events = <<>>
    /\ resp = NoResp

NextCart ==
    \/ \E p \in ProductIds, v \in VariantInputs, q \in QuantityInputs :
          add_item(CartBuyer, p, v, q)
    \/ \E i \in ItemIdInputs, q \in QuantityInputs :
          update_item_quantity(CartBuyer, i, q)
    \/ \E i \in ItemIdInputs : remove_item(CartBuyer, i)
    \/ clear_cart(CartBuyer)
    \/ \E d \in AddressIdInputs : create_order_from_cart(CartBuyer, d)
    \* the routes' guard refuses a seller before the handler reads the
    \* request, so one request per route stands for all of theirs
    \/ add_item("s1", "p1", None, 1)
    \/ update_item_quantity("s1", 1, 1)
    \/ remove_item("s1", 1)
    \/ clear_cart("s1")
    \/ create_order_from_cart("s1", "a1")

SpecCart == InitCart /\ [][NextCart]_vars

-----------------------------------------------------------------------------
(* Specification of payments: the buyer of a freshly created order, another *)
(* buyer and an admin initiate attempts; the gateways call the webhooks.    *)

InitPay ==
    /\ users = SeedUsers
    /\ orders = SeedOrders
    /\ shipments = <<>>
    /\ notifications = <<>>
    /\ prefs = {}
    /\ addresses = SeedAddresses
    /\ products = SeedProducts(0)
    /\ inventory_logs = <<>>
    /\ carts = NoCarts
    /\ item_seq = 0
    /\ payments = <<>>
    /\ password_reset_tokens = <<>>
    /\ clock = 0
    /\ requests = NoRequests
    /\ favorites = {}
    /\ sellers = <<>>
    /\ categories = <<>>
    /\ threads = <<>>
    /\ messages = <<>>
    /\ sessions = NoSessions
    /\ rooms = {}
    /\ events = <<>>
    /\ resp = NoResp

NextPay ==
    \/ \E o \in OrderIdInputs, p \in ProviderInputs : initiate_payment("b1", o, p)
    \* callers who are refused whatever they ask for
    \/ \E a \in {"b2", "adm"} : initiate_payment(a, 1, "momo")
    \/ \E payload \in MomoPayloads : handle_momo_webhook(payload)
    \/ \E params \in VnpayParams : handle_vnpay_webhook(params)

SpecPay == InitPay /\ [][NextPay]_vars

-----------------------------------------------------------------------------
(* Specification of the password reset: requests for user b1 and for an    *)
(* unknown email arrive and run interleaved.                               *)

InitReset ==
    /\ users = SeedUsers
    /\ orders = <<>>
    /\ shipments = <<>>
    /\ notifications = <<>>
    /\ prefs = {}
    /\ addresses = SeedAddresses
    /\ products = SeedProducts(0)
    /\ inventory_logs = <<>>
    /\ carts = NoCarts
    /\ item_seq = 0
    /\ payments = <<>>
    /\ password_reset_tokens = <<>>
    /\ clock = 0
    /\ requests = NoRequests
    /\ favorites = {}
    /\ sellers = <<>>
    /\ categories = <<>>
    /\ threads = <<>>
    /\ messages = <<>>
    /\ sessions = NoSessions
    /\ rooms = {}
    /\ events = <<>>
    /\ resp = NoResp

NextReset ==
    \/ \E r \in FreeRequestIds, m \in EmailInputs : forgot_password_start(r, m)
    \/ \E r \in RequestIds : forgot_password_insert(r)
    \/ \E r \in RequestIds, sent \in BOOLEAN : forgot_password_send(r, sent)
    \/ \E r \in FreeRequestIds, m \in EmailInputs, t \in TokenInputs,
          pw \in NewPasswordInputs : reset_password_start(r, m, t, pw)
    \/ \E r \in RequestIds : reset_password_expire(r)
    \/ \E r \in RequestIds : reset_password_set(r)
    \/ \E r \in RequestIds : reset_password_mark(r)
    \/ Tick

SpecReset == InitReset /\ [][NextReset]_vars

-----------------------------------------------------------------------------
(* Properties of the order lifecycle, checked under SpecOrders *)

\* the operations that set an order's fulfillment_status, refund apart
FulfillmentOps ==
    {"seller_confirm_order", "seller_ready_to_ship", "seller_mark_delivered",
     "cancel_order", "create_shipment", "update_shipment_status_manual",
     "shipping_webhook"}

\* C1: one operation among seller confirm, ready-to-ship, mark-delivered, buyer
\* cancel, shipment creation and shipment status update takes an order that is in
\* pending_confirmation only to processing or to cancelled.
C1_PendingLeadsOnlyToProcessingOrCancelled ==
    [][\A o \in OrderIds :
          (/\ orders[o].fulfillment_status = "pending_confirmation"
           /\ resp'.op \in FulfillmentOps)
          => orders'[o].fulfillment_status \in
                {"pending_confirmation", "processing", "cancelled"}]_vars

\* C2: cancel_order by the owning buyer succeeds exactly when the order is in
\* pending_confirmation or processing and then sets fulfillment_status and
\* payment_status to cancelled; in every other status it is refused with
\* InvalidInput and no stored document changes.
C2_CancelOrder ==
    [][\A o \in OrderIds :
          (/\ resp'.op = "cancel_order"
           /\ resp'.target = o
           /\ resp'.actor = orders[o].buyer_id)
          => IF orders[o].fulfillment_status \in {"pending_confirmation", "processing"}
             THEN /\ resp'.code = OK
                  /\ orders'[o].fulfillment_status = "cancelled"
                  /\ orders'[o].payment_status = "cancelled"
             ELSE /\ resp'.code = InvalidInput
                  /\ orders' = orders
                  /\ shipments' = shipments
                  /\ notifications' = notifications]_vars

\* C2 witness: the buyer cancelled the order, and a second cancel of the now
\* cancelled order was refused.
C2_Witness ==
    /\ resp = Resp("cancel_order", "b1", 1, InvalidInput)
    /\ orders[1].fulfillment_status = "cancelled"
    /\ orders[1].payment_status = "cancelled"

-----------------------------------------------------------------------------
(* Properties of cart and checkout, checked under SpecCart *)

SellersOf(items) ==
    {products[items[i].product_id].seller_id : i \in 1..Len(items)}

\* a checkout request of buyer a on a cart with lines of several sellers
MultiSellerCheckout(a, d) ==
    /\ resp'.op = "create_order_from_cart"
    /\ resp'.actor = a
    /\ Cardinality(SellersOf(cart_items(carts, a))) >= 2
    /\ create_order_from_cart(a, d)

\* no order inserted, the cart's items as they were, no notification sent
NothingOrdered(a) ==
    /\ orders' = orders
    /\ cart_items(carts', a) = cart_items(carts, a)
    /\ notifications' = notifications

\* every stored order's items belong to products of the order's seller
OrdersSingleSeller ==
    \A o \in OrderIds : \A i \in 1..Len(orders[o].items) :
        products[orders[o].items[i].product_id].seller_id = orders[o].seller_id

LineQuantity(items, product_id, variant_id) ==
    IF find_item_index(items, product_id, variant_id) = 0 THEN 0
    ELSE items[find_item_index(items, product_id, variant_id)].quantity

\* no stored cart is changed; at most the caller's missing cart document is
\* created, with no items
CartsKept(a) ==
    /\ \A u \in DOMAIN carts : u \in DOMAIN carts' /\ carts'[u] = carts[u]
    /\ \A u \in DOMAIN carts' \ DOMAIN carts : u = a /\ carts'[u].items = <<>>

\* C4: add_item and update_item_quantity fail with InvalidInput whenever the
\* resulting quantity of the line (for add_item the existing quantity plus the
\* requested one, for update_item_quantity the requested one) exceeds the
\* variant's stock_quantity, and then no stored cart is changed.
C4_StockGuard ==
    [][\A a \in BuyerIds :
        /\ \A p \in ProductIds, v \in VariantInputs, q \in QuantityInputs :
              ( /\ resp'.op = "add_item"
                /\ resp'.actor = a
                /\ HasVariant(p, v)
                /\ LineQuantity(cart_items(carts, a), p, v) + q > stock_quantity(p, v)
                /\ add_item(a, p, v, q) )
              => resp'.code = InvalidInput /\ CartsKept(a)
        /\ \A i \in ItemIdInputs, q \in QuantityInputs :
              LET items == cart_items(carts, a)
                  idx == item_index(items, i)
              IN  ( /\ resp'.op = "update_item_quantity"
                    /\ resp'.actor = a
                    /\ idx > 0
                    /\ HasVariant(items[idx].product_id, items[idx].variant_id)
                    /\ q > stock_quantity(items[idx].product_id, items[idx].variant_id)
                    /\ update_item_quantity(a, i, q) )
                  => resp'.code = InvalidInput /\ CartsKept(a)]_vars

\* a rejected add_item on a line that already holds the whole stock
C4_Witness ==
    /\ resp = Resp("add_item", "b1", 0, InvalidInput)
    /\ "b1" \in DOMAIN carts
    /\ LineQuantity(carts["b1"].items, "p1", "v1") = stock_quantity("p1", "v1")
    /\ stock_quantity("p1", "v1") > 0

-----------------------------------------------------------------------------
(* Properties of payments, checked under SpecPay *)

SamePair(i, j) ==
    /\ payments[i].order_id = payments[j].order_id
    /\ payments[i].provider = payments[j].provider

\* C5: for every (order, provider) pair at most one Payment record is
\* pending and it is the most recently created one of the pair: of any two
\* records of a pair the older one is not pending (it was marked expired when
\* the newer one was created, unless a webhook settled it before).
C5_OnePendingPerPair ==
    \A i \in PaymentIds, j \in PaymentIds :
        (i < j /\ SamePair(i, j)) => payments[i].status # "pending"

C5_Witness ==
    \E i \in PaymentIds, j \in PaymentIds :
        /\ i < j
        /\ SamePair(i, j)
        /\ payments[i].status = "expired"
        /\ payments[j].status = "pending"

NotificationRow(user_id, notification_type, order_id) ==
    [user_id |-> user_id, type |-> notification_type,
     order_id |-> order_id, is_read |-> FALSE]

\* what the claim says an accepted webhook for attempt pid does
WebhookOutcome(pid, success, transaction_id) ==
    LET o == payments[pid].order_id
    IN  IF success
        THEN /\ payments'[pid].status = "paid"
             /\ orders'[o].payment_status = "paid"
             /\ transaction_id # None => orders'[o].transaction_id = transaction_id
             /\ notifications' = notifications \o
                    <<NotificationRow(orders[o].buyer_id, "payment_paid", o),
                      NotificationRow(orders[o].seller_id, "payment_paid", o)>>
        ELSE /\ payments'[pid].status = "failed"
             /\ orders'[o].payment_status = "failed"
             /\ notifications' = notifications \o
                    <<NotificationRow(orders[o].buyer_id, "payment_failed", o)>>

\* a MoMo body that passes the signature, record-match and amount checks
MomoPasses(p) ==
    LET pid == find_payment(p.orderId, "momo", p.requestId)
    IN  /\ p.signature = MomoKey
        /\ pid # 0
        /\ Abs(p.amount - orders[payments[pid].order_id].total_amount) <= 1

\* VNPay parameters that pass the three checks
VnpayPasses(p) ==
    LET pid == find_payment(p.vnp_OrderInfo, "vnpay", p.vnp_TxnRef)
    IN  /\ p.vnp_SecureHash = VnpayKey
        /\ pid # 0
        /\ Abs(p.vnp_Amount - orders[payments[pid].order_id].total_amount * 100) <= 100

C7_RejectedWebhookChangesNothing ==
    /\ [](/\ \A p \in MomoPayloads :
               ~MomoPasses(p) => handle_momo_webhook_code(p) # OK
          /\ \A p \in VnpayParams :
               ~VnpayPasses(p) => handle_vnpay_webhook_code(p) # OK)
    /\ [][( /\ resp'.op \in {"handle_momo_webhook", "handle_vnpay_webhook"}
            /\ resp'.code # OK )
          => /\ payments' = payments
             /\ orders' = orders
             /\ notifications' = notifications]_vars

\* a rejected VNPay webhook while an attempt is pending and nothing was settled
C7_Witness ==
    /\ resp = Resp("handle_vnpay_webhook", Anon, 0, InvalidInput)
    /\ \E i \in PaymentIds : payments[i].provider = "vnpay" /\ payments[i].status = "pending"
    /\ orders[1].payment_status = "pending"
    /\ notifications = <<>>

\* C8: an initiation succeeds only for the order's buyer or an admin; by the
\* order's buyer it fails with InvalidInput once the order's payment_status is
\* paid or cod_collected; an initiation that fails creates no Payment record
\* and marks none expired.
C8_InitiateGuard ==
    [][resp'.op = "initiate_payment" =>
       \A a \in UserIds, o \in OrderIdInputs, p \in ProviderInputs :
          initiate_payment(a, o, p)
          => /\ resp'.code = OK
                  => /\ o \in OrderIds
                     /\ orders[o].buyer_id = a \/ users[a].role = "admin"
             /\ ( /\ o \in OrderIds
                  /\ orders[o].buyer_id = a
                  /\ orders[o].payment_status \in {"paid", "cod_collected"} )
                  => resp'.code = InvalidInput
             /\ resp'.code # OK => payments' = payments]_vars

\* the buyer is refused on the paid order while another attempt is pending
C8_Witness ==
    /\ resp = Resp("initiate_payment", "b1", 1, InvalidInput)
    /\ orders[1].payment_status = "paid"
    /\ \E i \in PaymentIds : payments[i].status = "pending"


-----------------------------------------------------------------------------
(* Properties of the password reset                                        *)

\* reset-password requests that presented this code and stored a password
ChangedWith(code) ==
    {r \in RequestIds : /\ requests[r].kind = "reset_password"
                        /\ requests[r].token = code
                        /\ requests[r].changed}

\* C9: a reset code is usable exactly once. Over any interleaving of
\* reset-password requests presenting the same code, at most one of them
\* changes the password; a request that succeeded or that found the token
\* expired leaves the token used; and a request that presents a code whose
\* token is already used fails with InvalidInput and changes nothing.
C9_CodeUsableOnce ==
    /\ \A code \in TokenInputs : Cardinality(ChangedWith(code)) <= 1
    /\ \A r \in RequestIds :
          (/\ requests[r].kind = "reset_password"
           /\ requests[r].pc = "done"
           /\ requests[r].entry # 0)
          => \A i \in TokensWithId(requests[r].entry) : password_reset_tokens[i].used
    /\ \A r \in RequestIds :
          (requests[r].kind = "reset_password" /\ requests[r].late)
          => /\ requests[r].pc = "done"
             /\ requests[r].code = InvalidInput
             /\ ~requests[r].changed

\* the user's tokens that are still unused
UnusedTokens(user) ==
    {i \in TokenIndexes : /\ password_reset_tokens[i].user_id = user
                          /\ ~password_reset_tokens[i].used}

\* C10: a new reset code invalidates the user's earlier ones. After any
\* interleaving of forgot-password requests at most one token per user has
\* used = false, and a reset-password request that changes the password
\* presented a code no older than any forgot-password request of that user
\* that arrived before it.
C10_OneUnusedTokenPerUser ==
    /\ \A u \in UserIds : Cardinality(UnusedTokens(u)) <= 1
    /\ \A r \in RequestIds :
          (requests[r].kind = "reset_password" /\ requests[r].changed)
          => \A q \in RequestIds :
                (/\ requests[q].kind = "forgot_password"
                 /\ requests[q].email = requests[r].email
                 /\ q < r)
                => q <= requests[r].token


-----------------------------------------------------------------------------
(* Properties of shipments                                                 *)

\* C11: in every reachable state at most one shipment exists per order,
\* also when two create_shipment requests for the same order run
\* concurrently.
C11_OneShipmentPerOrder ==
    \A o \in OrderIds : Cardinality(ShipmentsOf(o)) <= 1


\* the steps of SpecOrders in which create_shipment was called by a for order o
CreateShipmentStep(a, o) ==
    /\ resp'.op = "create_shipment"
    /\ resp'.actor = a
    /\ resp'.target = o
    /\ create_shipment(a, o)

ShippingUntouched ==
    /\ shipments' = shipments
    /\ orders' = orders
    /\ notifications' = notifications

\* C12 as stated: create_shipment by the owning seller on an order that
\* already has a shipment returns the existing shipment and changes nothing.
C12_SecondCreateReturnsExisting ==
    [][\A o \in OrderIds :
          (ShipmentsOf(o) # {} /\ CreateShipmentStep(orders[o].seller_id, o))
          => (resp'.code = OK /\ ShippingUntouched)]_vars

\* C12, amended: create_shipment on an order that already has a shipment
\* inserts nothing, updates no order and sends no notification, whoever
\* calls; called by the owning seller it returns the existing shipment
\* while the order is pending_confirmation or processing and is refused with
\* InvalidInput in every other fulfillment status.
C12_SecondCreateChangesNothing ==
    [][\A o \in OrderIds, a \in Actors :
          (ShipmentsOf(o) # {} /\ CreateShipmentStep(a, o))
          => /\ ShippingUntouched
             /\ a = orders[o].seller_id
                => resp'.code =
                      IF orders[o].fulfillment_status \in
                            {"pending_confirmation", "processing"}
                      THEN OK ELSE InvalidInput]_vars

\* C12 witness: the seller created the shipment, reported it picked up, and
\* called create_shipment again, which returned.
C12_Witness ==
    /\ resp = Resp("create_shipment", "s1", 1, OK)
    /\ Len(shipments) = 1
    /\ shipments[1].status = "picked_up"
    /\ orders[1].fulfillment_status = "processing"

StatusTable ==
    [in_transit |-> "shipping", delivered |-> "delivered", completed |-> "completed",
     cancelled |-> "cancelled", returned |-> "returned"]

ShipmentUpdateOps == {"update_shipment_status_manual", "shipping_webhook"}

\* the in-app row update_shipment_status sends to a user
ShipmentUpdateRow(user_id, o) ==
    [user_id |-> user_id, type |-> "shipment_update", order_id |-> o, is_read |-> FALSE]

-----------------------------------------------------------------------------
(* Properties of notifications, checked under SpecNotify *)

\* the preference rows of a user for one event key on the in-app channel
InAppRows(user_id, event_type) ==
    {p \in prefs : /\ p.user_id = user_id
                   /\ p.event_type = event_type
                   /\ p.channel = "in_app"}

\* how many order_created rows of order o the user holds in ns
OrderCreatedRows(ns, user_id, o) ==
    Cardinality({i \in 1..Len(ns) : /\ ns[i].user_id = user_id
                                     /\ ns[i].type = "order_created"
                                     /\ ns[i].order_id = o})

\* C15: when a checkout raises order_created for its buyer, an exact
\* preference row (buyer, order_created, in_app) decides alone: disabled, no
\* row is inserted and the checkout still succeeds, enabled, one row is
\* inserted, whatever the wildcard row says; without an exact row the
\* wildcard row (buyer, __all__, in_app) decides; without either exactly one
\* row is inserted.
C15_PreferenceDecides ==
    [][\A o \in 1..MaxOrders :
          (/\ resp'.op = "create_order_from_cart"
           /\ resp'.code = OK
           /\ resp'.target = o)
          => LET b == resp'.actor
                 exact == InAppRows(b, "order_created")
                 wild == InAppRows(b, "__all__")
                 sent == OrderCreatedRows(notifications', b, o)
             IN  /\ OrderCreatedRows(notifications, b, o) = 0
                 /\ Len(orders') = Len(orders) + 1
                 /\ exact # {} => sent = IF \A p \in exact : p.enabled THEN 1 ELSE 0
                 /\ (exact = {} /\ wild # {})
                    => sent = IF \A p \in wild : p.enabled THEN 1 ELSE 0
                 /\ (exact = {} /\ wild = {}) => sent = 1]_vars

\* C15 witness: the buyer disabled order_created, kept the wildcard enabled,
\* and checked out: the order exists and no order_created row was inserted.
C15_Witness ==
    /\ resp = Resp("create_order_from_cart", "b1", 1, OK)
    /\ [user_id |-> "b1", event_type |-> "order_created", channel |-> "in_app",
        enabled |-> FALSE] \in prefs
    /\ [user_id |-> "b1", event_type |-> "__all__", channel |-> "in_app",
        enabled |-> TRUE] \in prefs
    /\ OrderCreatedRows(notifications, "b1", 1) = 0
    /\ Len(orders) = 1


-----------------------------------------------------------------------------
(* Properties of favorites, checked under SpecFav *)

\* C16: add_favorite is idempotent per (user, product). In every state a
\* pair has at most one Favorite document, and after every successful
\* add_favorite it has exactly one, whose created_at is the time of the call
\* that inserted it and whose product_name and thumbnail are those of the
\* product at this call; no other favorite changes.
C16_FavoriteIdempotent ==
    /\ [](\A u \in UserIds, p \in ProductIds :
            Cardinality(FavoritesOf(favorites, u, p)) <= 1)
    /\ [][\A u \in BuyerIds, p \in ProductIds :
            (/\ resp'.op = "add_favorite"
             /\ resp'.code = OK
             /\ resp'.actor = u
             /\ resp'.target = p)
            => LET old == FavoritesOf(favorites, u, p)
                   new == FavoritesOf(favorites', u, p)
               IN  /\ Cardinality(new) = 1
                   /\ favorites' \ new = favorites \ old
                   /\ \A f \in new :
                         /\ f.product_name = products[p].name
                         /\ f.thumbnail_url =
                               IF products[p].thumbnail_url # None
                               THEN products[p].thumbnail_url
                               ELSE IF Len(products[p].image_urls) > 0
                               THEN products[p].image_urls[1] ELSE None
                         /\ f.created_at =
                               IF old = {} THEN clock
                               ELSE (CHOOSE g \in old : TRUE).created_at]_vars

\* C16 witness: b1 added p1 at time 0, the seller renamed the product and
\* set a thumbnail, time passed, and b1 added p1 again.
C16_Witness ==
    /\ resp = Resp("add_favorite", "b1", "p1", OK)
    /\ clock > 0
    /\ favorites = {[user_id |-> "b1", product_id |-> "p1",
                     product_name |-> <<"n", "2">>,
                     thumbnail_url |-> "t2", created_at |-> 0]}


-----------------------------------------------------------------------------
(* Properties of addresses, checked under SpecAddr *)

DefaultAddresses(user_id) ==
    {a \in addresses : a.user_id = user_id /\ a.is_default}

\* C17: in every reachable state, the states between the two writes of one
\* request and those of interleaved requests included, every user has at
\* most one address with is_default = true.
C17_OneDefaultAddress ==
    \A u \in UserIds : Cardinality(DefaultAddresses(u)) <= 1

-----------------------------------------------------------------------------
(* Properties of slugs, checked under SpecSlug *)

\* the slugs of a collection are pairwise distinct
DistinctSlugs ==
    /\ \A i, j \in DOMAIN categories : categories[i].slug = categories[j].slug => i = j
    /\ \A p, q \in DOMAIN products : products[p].slug = products[q].slug => p = q
    /\ \A i, j \in DOMAIN sellers : sellers[i].slug = sellers[j].slug => i = j

\* slug is the lowest-numbered of base, base-2, base-3, ... that is not taken
IsFirstFree(slug, base, taken) ==
    \E k \in 1..(Cardinality(taken) + 1) :
        /\ slug = slug_candidate(base, k)
        /\ slug \notin taken
        /\ \A j \in 1..(k - 1) : slug_candidate(base, j) \in taken

\* slug is base for the first document of that name, base-2 for the second, ...
IsNumbered(slug, base, same_name) ==
    slug = slug_candidate(base, same_name + 1)

NoSlugGiven(payload) == "slug" \notin DOMAIN payload

CategoriesNamed(name) == {i \in DOMAIN categories : categories[i].name = name}
ProductsNamed(name) == {p \in DOMAIN products : products[p].name = name}
SellersNamed(name) == {i \in DOMAIN sellers : sellers[i].shop_name = name}

\* C18 as stated: the slugs generated for documents created with the same
\* name and no explicit slug are pairwise distinct, the first being the base
\* slug and the k-th being base-k.
C18_SlugsNumberedInOrder ==
    /\ []DistinctSlugs
    /\ [][/\ \A payload \in CategoryCreateInputs :
               resp'.op = "create_category" /\ NoSlugGiven(payload)
               /\ create_category("adm", payload) =>
                   IsNumbered(categories'[Len(categories')].slug,
                              catalog_slug_base(payload.name),
                              Cardinality(CategoriesNamed(payload.name)))
          /\ \A payload \in ProductCreateInputs :
               resp'.op = "create_product" /\ NoSlugGiven(payload)
               /\ create_product("s1", payload) =>
                   IsNumbered(products'[NewProductId].slug,
                              catalog_slug_base(payload.name),
                              Cardinality(ProductsNamed(payload.name)))
          /\ \A app \in ApplicationInputs :
               resp'.op = "submit_application" /\ resp'.actor = app[1]
               /\ SellerOf(app[1]) = 0 /\ submit_application(app[1], app[2]) =>
                   IsNumbered(sellers'[Len(sellers')].slug,
                              seller_slug_base(strip(app[2], {" "})),
                              Cardinality(SellersNamed(strip(app[2], {" "}))))]_vars

\* C18, amended: slugs are pairwise distinct within their collection, and a
\* document created by an authorised caller with no explicit slug is always
\* stored, under the lowest-numbered of base, base-2, base-3, ... that no
\* other document of the collection holds; base is the slugified name, or
\* item (catalog) or shop (sellers) when nothing of the name is left.
C18_FirstFreeSlug ==
    /\ []DistinctSlugs
    /\ [](/\ catalog_slug_base(ShopName) = <<"s", "h", "o", "p">>
          /\ catalog_slug_base(Shop2Name) = <<"s", "h", "o", "p", "-", "2">>
          /\ catalog_slug_base(SymbolsName) = <<"i", "t", "e", "m">>
          /\ seller_slug_base(Shop2Name) = <<"s", "h", "o", "p", "-", "2">>
          /\ seller_slug_base(SymbolsName) = <<"s", "h", "o", "p">>)
    /\ [][/\ \A payload \in CategoryCreateInputs :
               resp'.op = "create_category" /\ NoSlugGiven(payload)
               /\ create_category("adm", payload) =>
                   /\ resp'.code = Created
                   /\ Len(categories') = Len(categories) + 1
                   /\ categories'[Len(categories')].name = payload.name
                   /\ IsFirstFree(categories'[Len(categories')].slug,
                                  catalog_slug_base(payload.name), CategorySlugs)
          /\ \A payload \in ProductCreateInputs :
               resp'.op = "create_product" /\ NoSlugGiven(payload)
               /\ create_product("s1", payload) =>
                   /\ resp'.code = Created
                   /\ DOMAIN products' = DOMAIN products \cup {NewProductId}
                   /\ products'[NewProductId].name = payload.name
                   /\ IsFirstFree(products'[NewProductId].slug,
                                  catalog_slug_base(payload.name), ProductSlugs)
          /\ \A app \in ApplicationInputs :
               resp'.op = "submit_application" /\ resp'.actor = app[1]
               /\ submit_application(app[1], app[2]) =>
                   /\ resp'.code = Created
                   /\ SellerOf(app[1])' = resp'.target
                   /\ IsFirstFree(sellers'[resp'.target].slug,
                                  seller_slug_base(strip(app[2], {" "})),
                                  OtherSellerSlugs(SellerOf(app[1])))]_vars

\* the third category named Shop has just been stored as shop-3, the third
\* product named n1 is stored as n1-3 and two sellers hold shop and shop-2
C18_Witness ==
    /\ resp.op = "create_category" /\ resp.code = Created /\ resp.target = 3
    /\ \A i \in 1..3 : categories[i].name = ShopName
    /\ categories[1].slug = <<"s", "h", "o", "p">>
    /\ categories[2].slug = <<"s", "h", "o", "p", "-", "2">>
    /\ categories[3].slug = <<"s", "h", "o", "p", "-", "3">>
    /\ "p3" \in DOMAIN products
    /\ products["p3"].slug = <<"n", "1", "-", "3">>
    /\ Len(sellers) = 2
    /\ sellers[1].shop_name = ShopName /\ sellers[1].slug = <<"s", "h", "o", "p">>
    /\ sellers[2].shop_name = ShopName
    /\ sellers[2].slug = <<"s", "h", "o", "p", "-", "2">>

-----------------------------------------------------------------------------
(* Properties of inventory, checked under SpecInv *)

StockNonNegative ==
    \A p \in DOMAIN products : \A v \in DOMAIN products[p].variants :
        products[p].variants[v].stock_quantity >= 0

InventoryUntouched == UNCHANGED <<products, inventory_logs>>

Owns(a, p) == p \in DOMAIN products /\ products[p].seller_id = a

\* C19: adjust_inventory answers NotFound when the product is not owned by
\* the calling seller and InvalidInput when current stock + delta would be
\* negative, in both cases leaving stock and inventory log unchanged; every
\* successful adjustment changes exactly that variant's stock by delta and
\* appends exactly one InventoryLog entry; stock_quantity >= 0 in every state.
C19_AdjustInventory ==
    /\ []StockNonNegative
    /\ [][\A a \in InventoryCallers, p \in ProductIdInputs,
             v \in InventoryVariantInputs, d \in DeltaInputs :
             resp'.actor = a /\ resp'.target = p /\ adjust_inventory(a, p, v, d) =>
                /\ (require_seller(a) = OK /\ ~Owns(a, p)) =>
                        resp'.code = NotFound /\ InventoryUntouched
                /\ (require_seller(a) = OK /\ Owns(a, p) /\ HasVariant(p, v)
                     /\ stock_quantity(p, v) + d < 0) =>
                        resp'.code = InvalidInput /\ InventoryUntouched
                /\ resp'.code # OK => InventoryUntouched
                /\ resp'.code = OK =>
                        /\ Owns(a, p) /\ HasVariant(p, v)
                        /\ stock_quantity(p, v)' = stock_quantity(p, v) + d
                        /\ products' = [products EXCEPT
                               ![p].variants[v].stock_quantity = stock_quantity(p, v)']
                        /\ Len(inventory_logs') = Len(inventory_logs) + 1
                        /\ SubSeq(inventory_logs', 1, Len(inventory_logs)) = inventory_logs
                        /\ inventory_logs'[Len(inventory_logs')] =
                               InventoryLog(p, v, d, a)]_vars

\* seller s1 has emptied variant v1 of p1, raised v2, and a further removal
\* from v1 has just been refused
C19_Witness ==
    /\ resp = Resp("adjust_inventory", "s1", "p1", InvalidInput)
    /\ Len(inventory_logs) = 2
    /\ products["p1"].variants["v1"].stock_quantity = 0
    /\ products["p1"].variants["v2"].stock_quantity = 2

-----------------------------------------------------------------------------
(* Properties of seller applications, checked under SpecSeller *)

OneSellerPerUser ==
    \A i, j \in DOMAIN sellers : sellers[i].user_id = sellers[j].user_id => i = j

\* the seller records other than that of position idx are the same after the step
OtherSellersKept(idx) ==
    \A i \in DOMAIN sellers \ {idx} : sellers'[i] = sellers[i]

\* C20: an application by a user with no Seller record creates one in status
\* pending; one sent while the record is pending or rejected sets status to
\* pending and clears verification_notes; one sent while approved or
\* suspended updates the profile and leaves status and verification_notes
\* alone. No application makes a Seller approved, and a user never has more
\* than one Seller record.
C20_Applications ==
    /\ []OneSellerPerUser
    /\ [][\A a \in {"b1", "b2"}, n \in ShopNameInputs :
             submit_application(a, n) =>
                LET old == SellerOf(a)
                    new == SellerOf(a)'
                IN
                /\ new # 0
                /\ sellers'[new].user_id = a
                /\ sellers'[new].shop_name = strip(n, {" "})
                /\ old = 0 =>
                       /\ Len(sellers') = Len(sellers) + 1
                       /\ sellers'[new].status = "pending"
                       /\ sellers'[new].verification_notes = None
                /\ old # 0 => new = old /\ Len(sellers') = Len(sellers)
                /\ (old # 0 /\ sellers[old].status \in {"pending", "rejected"}) =>
                       /\ sellers'[new].status = "pending"
                       /\ sellers'[new].verification_notes = None
                /\ (old # 0 /\ sellers[old].status \in {"approved", "suspended"}) =>
                       /\ sellers'[new].status = sellers[old].status
                       /\ sellers'[new].verification_notes = sellers[old].verification_notes
                /\ OtherSellersKept(old)
                /\ \A i \in DOMAIN sellers' :
                       sellers'[i].status = "approved" =>
                           i \in DOMAIN sellers /\ sellers[i].status = "approved"
                /\ users' = users]_vars

\* buyer b1, approved by the admin with notes, has just applied again under
\* another shop name, while the record of b2 is pending without notes
C20_Witness ==
    /\ resp.op = "submit_application" /\ resp.actor = "b1" /\ resp.code = Created
    /\ Len(sellers) = 2
    /\ sellers[SellerOf("b1")].status = "approved"
    /\ sellers[SellerOf("b1")].verification_notes = "notes"
    /\ sellers[SellerOf("b1")].shop_name = Shop2Name
    /\ sellers[SellerOf("b1")].slug = <<"s", "h", "o", "p", "-", "2">>
    /\ users["b1"].role = "seller"
    /\ sellers[SellerOf("b2")].status = "pending"
    /\ sellers[SellerOf("b2")].verification_notes = None

-----------------------------------------------------------------------------
(* Properties of seller moderation, checked under SpecModeration *)

\* C21: when an admin sets a seller's status to approved, the owning user's
\* role becomes seller and is_active becomes true, and no other user changes;
\* setting pending, rejected or suspended, and every refused call, leaves the
\* users as they are.
C21_ApprovalPromotesOwner ==
    [][\A a \in {"adm", "s1"}, i \in 1..MaxSellers, st \in SellerStatus :
         resp'.op = "admin_update_seller_status" /\ resp'.actor = a
         /\ admin_update_seller_status(a, i, st, None) =>
            IF resp'.code = OK /\ st = "approved"
            THEN /\ users'[sellers[i].user_id].role = "seller"
                 /\ users'[sellers[i].user_id].is_active
                 /\ \A u \in UserIds \ {sellers[i].user_id} : users'[u] = users[u]
                 /\ sellers'[i].status = "approved"
            ELSE users' = users]_vars

\* the admin has just approved the record of b1, who is now an active
\* seller, while b2, whose record is suspended, is still a buyer
C21_Witness ==
    /\ resp = Resp("admin_update_seller_status", "adm", SellerOf("b1"), OK)
    /\ Len(sellers) = 2
    /\ sellers[SellerOf("b1")].status = "approved"
    /\ users["b1"].role = "seller" /\ users["b1"].is_active
    /\ sellers[SellerOf("b2")].status = "suspended"
    /\ users["b2"].role = "buyer"

-----------------------------------------------------------------------------
(* Chat threads *)

\* every order has at most one thread, whose parties are the order's
OneThreadPerOrder ==
    /\ \A o \in OrderIds : Cardinality(ThreadsOf(o)) <= 1
    /\ \A i \in DOMAIN threads :
          /\ threads[i].order_id \in OrderIds
          /\ threads[i].buyer_id = orders[threads[i].order_id].buyer_id
          /\ threads[i].seller_id = orders[threads[i].order_id].seller_id

\* a step keeps every thread, with its order and its parties
ThreadPartiesKept ==
    \A i \in DOMAIN threads :
        /\ i \in DOMAIN threads'
        /\ threads'[i].order_id = threads[i].order_id
        /\ threads'[i].buyer_id = threads[i].buyer_id
        /\ threads'[i].seller_id = threads[i].seller_id

\* C22: in every reachable state an order has at most one chat thread, also
\* when its buyer and its seller create the thread concurrently, and the
\* thread's buyer_id and seller_id are the order's and no step changes them.
C22_OneThreadPerOrder == []OneThreadPerOrder /\ [][ThreadPartiesKept]_vars

\* the buyer and the seller both found no thread and both inserted: one
\* insert made the thread and the other hit the unique index; a message has
\* been written to the thread since
C22_Witness ==
    /\ Len(threads) = 1
    /\ threads[1].last_message_preview # ""
    /\ \E r1, r2 \in RequestIds :
          /\ requests[r1].actor = "b1" /\ requests[r2].actor = "s1"
          /\ requests[r1].pc = "done" /\ requests[r2].pc = "done"
          /\ {requests[r1].code, requests[r2].code} = {Created, Internal}

-----------------------------------------------------------------------------
(* Chat access and the realtime gateway *)

ThreadParty(thread_id, user_id) ==
    /\ thread_id \in DOMAIN threads
    /\ user_id \in {threads[thread_id].buyer_id, threads[thread_id].seller_id}

\* what an authenticated caller who asks for a thread is to be answered when
\* the thread is unknown or the caller is not one of its parties
RefusalFor(thread_id, user_id, code) ==
    /\ thread_id \notin DOMAIN threads => code = NotFound
    /\ thread_id \in DOMAIN threads /\ ~ThreadParty(thread_id, user_id)
          => code = Forbidden

\* C23: listing the messages of a thread, sending a message to it and joining
\* its realtime room are granted only to the thread's buyer or seller: any
\* other caller, whatever the role, is refused with Forbidden, and an unknown
\* thread id yields NotFound.
C23_OnlyPartiesAccess ==
    [][/\ resp'.op \in {"list_messages", "send_message"}
          /\ get_current_user(resp'.actor) = OK
          => RefusalFor(resp'.target, resp'.actor, resp'.code)
       /\ resp'.op \in {"on_chat_join", "on_chat_send"}
          /\ ObjectId(resp'.target) # InvalidId
          => RefusalFor(ObjectId(resp'.target), sessions[resp'.actor].user_id,
                        resp'.code)]_vars

\* the chat:message events a step delivered to a connection with the content
\* of the message it persisted
Received(sid) ==
    {i \in DOMAIN events' :
        /\ events'[i].sid = sid
        /\ events'[i].event = "chat:message"
        /\ events'[i].content = messages'[Len(messages')].content}

\* C24: for every successful chat:send on a thread, every connection in the
\* thread's room at that moment receives exactly one chat:message event with
\* the content of the persisted message, and a connection outside the room
\* receives none.
C24_RoomReceivesMessage ==
    [][resp'.op = "on_chat_send" /\ resp'.code = OK
       => \A sid \in Sids :
             Cardinality(Received(sid)) =
                IF sid \in Members(ChatNamespaceName, thread_room(resp'.target))
                THEN 1 ELSE 0]_vars

\* C25: on an established connection every error met while handling
\* chat:list, chat:join or chat:send, a failure while persisting the message
\* included, gives exactly a chat:error event to the requesting connection
\* and keeps every connection; a connection is refused only at connect time,
\* when the token is absent, invalid or names no user.
C25_ErrorsReported ==
    [][/\ resp'.op \in {"on_chat_list", "on_chat_join", "on_chat_send"}
          => /\ sessions' = sessions
             /\ resp'.code # OK
                => /\ Len(events') = 1
                   /\ events'[1].event = "chat:error"
                   /\ events'[1].sid = resp'.actor
       /\ resp'.op = "on_connect"
          => (resp'.actor \notin DOMAIN sessions'
              <=> resp'.target \in {"auth_required", "auth_invalid",
                                     "user_not_found"})]_vars

-----------------------------------------------------------------------------
(* Authentication *)

\* the roles each gated route of SpecAuth admits
GateOf(op) ==
    IF op = "cancel_order" THEN {"buyer"}
    ELSE IF op = "seller_confirm_order" THEN {"seller", "admin"}
    ELSE IF op = "admin_update_user_role" THEN {"admin"}
    ELSE {"buyer", "seller", "admin"}

\* the token is signed by the server and names a user
Resolves(token) == token.signed /\ token.sub \in DOMAIN users

GuardAnswers ==
    resp'.op = "get_profile" =>
        /\ get_profile(<<>>) => resp'.code = Unauthorized
        /\ \A token \in BearerTokens :
              get_profile([token |-> token]) =>
                  resp'.code = IF ~Resolves(token) THEN Unauthorized
                               ELSE IF ~users[token.sub].is_active THEN Forbidden
                               ELSE OK

GateAdmits ==
    resp'.op \in {"get_profile", "cancel_order", "seller_confirm_order",
                  "admin_update_user_role"}
    /\ (resp'.code \notin {Unauthorized, Forbidden}
        \/ <<users, orders, notifications>>' # <<users, orders, notifications>>)
    => /\ resp'.actor \in DOMAIN users
       /\ users[resp'.actor].is_active
       /\ users[resp'.actor].role \in GateOf(resp'.op)

LoginAnswers ==
    resp'.op = "login_user" =>
        \A p \in PasswordInputs :
            login_user(resp'.actor, p) =>
                /\ resp'.actor \in DOMAIN users
                   /\ p = RegisteredPassword
                   /\ ~users[resp'.actor].is_active
                   => resp'.code = Forbidden
                /\ resp'.code # OK => decode_access_token(resp'.target) = None
                /\ resp'.code = OK
                   => /\ users[resp'.actor].is_active
                      /\ p = RegisteredPassword
                      /\ decode_access_token(resp'.target) = resp'.actor

\* C26: get_current_user answers Unauthorized to a missing, an invalid and an
\* unresolvable token and Forbidden to the token of a deactivated user; a
\* login with the right password for a deactivated account is answered
\* Forbidden and carries no token; every gated route runs only for an active
\* user whose role the gate allows.
C26_NoDeactivatedAccount == [][GuardAnswers /\ GateAdmits /\ LoginAnswers]_vars

\* the admin has deactivated b1, whose login with the registered password
\* has just been refused
C26_Witness ==
    /\ resp.op = "login_user" /\ resp.actor = "b1" /\ resp.code = Forbidden
    /\ ~users["b1"].is_active
    /\ verify_password(RegisteredPassword, users["b1"].hashed_password)

-----------------------------------------------------------------------------
(* Who changes an order's fulfillment status *)

FulfillmentChanged(order_id) ==
    orders'[order_id].fulfillment_status # orders[order_id].fulfillment_status

\* the request of the step came from the order's seller, from the order's
\* buyer cancelling, or from an admin refunding
AuthorisedChange(order_id) ==
    /\ resp'.actor \in DOMAIN users
    /\ \/ resp'.actor = orders[order_id].seller_id
       \/ resp'.actor = orders[order_id].buyer_id /\ resp'.op = "cancel_order"
       \/ users[resp'.actor].role = "admin" /\ resp'.op = "admin_refund_order"

\* C27: every change of an order's fulfillment_status is made by the order's
\* owning seller, by its owning buyer (cancel) or by an admin (refund); no
\* request of another seller and no request without an authenticated actor
\* changes it.
C27_AuthorisedStatusChange ==
    [][\A o \in OrderIds : FulfillmentChanged(o) => AuthorisedChange(o)]_vars

-----------------------------------------------------------------------------
(* Removing cart lines *)

ItemsOf(cs, user_id) == IF user_id \in DOMAIN cs THEN cs[user_id].items ELSE <<>>

Lines(items) == {items[i] : i \in DOMAIN items}

HasLine(user_id, item_id) ==
    \E line \in Lines(ItemsOf(carts, user_id)) : line.item_id = item_id

\* C29 as stated: removing a cart line and clearing the cart always succeed
\* when the cart exists, whether or not a line with the item id is in it.
C29_RemoveAlwaysSucceeds ==
    [][resp'.op \in {"remove_item", "clear_cart"}
       /\ require_buyer(resp'.actor) = OK
       /\ resp'.actor \in DOMAIN carts
       => resp'.code = OK]_vars

\* what remove_item(actor, item_id) by a buyer did
RemovedOrNotFound(actor, item_id) ==
    IF HasLine(actor, item_id)
    THEN /\ resp'.code = OK
         /\ Len(carts'[actor].items) = Len(carts[actor].items) - 1
         /\ Lines(carts'[actor].items) =
               {line \in Lines(carts[actor].items) : line.item_id # item_id}
    ELSE /\ resp'.code = NotFound
         /\ carts'[actor].items = ItemsOf(carts, actor)

\* C29, amended: remove_item by a buyer succeeds and removes the line when a
\* line with the item id is in the cart, and fails with NotFound, leaving the
\* lines as they were, when there is none; clear_cart by a buyer always
\* succeeds and leaves the cart document with an empty item list; a caller
\* the guard refuses changes no cart.
C29_RemoveItemAndClear ==
    [][/\ resp'.op = "remove_item" /\ require_buyer(resp'.actor) = OK
          => \A i \in ItemIdInputs :
                remove_item(resp'.actor, i) => RemovedOrNotFound(resp'.actor, i)
       /\ resp'.op = "clear_cart" /\ require_buyer(resp'.actor) = OK
          => /\ resp'.code = OK
             /\ resp'.actor \in DOMAIN carts'
             /\ carts'[resp'.actor].items = <<>>
       /\ resp'.op \in {"remove_item", "clear_cart"}
          => /\ DOMAIN carts \subseteq DOMAIN carts'
             /\ require_buyer(resp'.actor) # OK => carts' = carts]_vars

\* the buyer, whose cart holds a line, has just asked to remove a line that
\* is not in the cart
C29_Witness ==
    /\ resp.op = "remove_item" /\ resp.actor = CartBuyer /\ resp.code = NotFound
    /\ CartBuyer \in DOMAIN carts
    /\ Len(carts[CartBuyer].items) > 0

-----------------------------------------------------------------------------
(* Checkout *)

\* the order a checkout appended, against the cart lines it was made from
OrderOfCart(order, buyer, lines) ==
    /\ order.buyer_id = buyer
    /\ order.payment_status = "pending"
    /\ order.fulfillment_status = "pending_confirmation"
    /\ order.shipping_fee = 0
    /\ order.discount_amount = 0
    /\ Len(order.timeline) = 1
    /\ order.timeline[1].status = "created"
    /\ Len(order.items) = Len(lines)
    /\ \A i \in DOMAIN lines :
          /\ order.items[i].product_id = lines[i].product_id
          /\ order.items[i].variant_id = lines[i].variant_id
          /\ order.items[i].quantity = lines[i].quantity

-----------------------------------------------------------------------------
(* Seller dashboard *)

\* the orders placed for the products a user created
OrdersForSeller(user_id) == {o \in DOMAIN orders : orders[o].seller_id = user_id}

ApprovedSeller(user_id) ==
    /\ SellerOf(user_id) # 0
    /\ sellers[SellerOf(user_id)].status = "approved"

\* the summary counts the orders placed for the seller's products and the
\* seller's low-stock variants
SummaryOf(summary, user_id) ==
    /\ summary.total_orders = Cardinality(OrdersForSeller(user_id))
    /\ summary.pending_orders =
          CountStatus(OrdersForSeller(user_id), {"pending_confirmation"})
    /\ summary.processing_orders =
          CountStatus(OrdersForSeller(user_id), {"processing", "shipping"})
    /\ summary.cancelled_orders = CountStatus(OrdersForSeller(user_id), {"cancelled"})
    /\ summary.completed_orders =
          CountStatus(OrdersForSeller(user_id), {"delivered", "completed"})
    /\ summary.low_stock_items = Cardinality(LowStockVariants(user_id))

\* C30: for an approved seller the dashboard summary's total_orders is the
\* number of stored orders placed for that seller's products, the pending,
\* processing, cancelled and completed counts count those same orders and
\* low_stock_items that seller's products; a seller whose record is not
\* approved is refused with Forbidden.
C30_DashboardSummary ==
    [][resp'.op = "seller_dashboard_summary" /\ require_seller(resp'.actor) = OK
       => IF ApprovedSeller(resp'.actor)
          THEN resp'.code = OK /\ SummaryOf(resp'.target, resp'.actor)
          ELSE resp'.code = Forbidden]_vars

-----------------------------------------------------------------------------
(* Order timelines *)

FulfillmentStatuses ==
    {"pending_confirmation", "processing", "shipping", "delivered", "completed",
     "cancelled", "returned", "refunded"}

FulfillmentTags == {"fulfillment_" \o s : s \in FulfillmentStatuses}

\* the entries a step appended to an order's timeline
Appended(order_id) ==
    SubSeq(orders'[order_id].timeline, Len(orders[order_id].timeline) + 1,
           Len(orders'[order_id].timeline))

\* the step appended exactly one entry tagged with the order's new
\* fulfillment status, and that entry names the actor of the request
OneTaggedEntry(order_id) ==
    LET new == Appended(order_id)
        tagged == {i \in DOMAIN new :
                      new[i].status =
                          "fulfillment_" \o orders'[order_id].fulfillment_status}
    IN  /\ Cardinality(tagged) = 1
        /\ \A i \in tagged :
              new[i].actor_id = IF resp'.actor = Anon THEN None ELSE resp'.actor

\* the latest fulfillment_-tagged entry of the timeline, 0 when there is none
LatestTagged(timeline) ==
    LET tagged == {i \in DOMAIN timeline : timeline[i].status \in FulfillmentTags}
    IN  IF tagged = {} THEN 0 ELSE CHOOSE i \in tagged : \A j \in tagged : j <= i

StatusIsLatestTag ==
    \A o \in OrderIds :
        LatestTagged(orders[o].timeline) # 0 =>
            orders[o].timeline[LatestTagged(orders[o].timeline)].status =
                "fulfillment_" \o orders[o].fulfillment_status

\* C31: every transition of an order's fulfillment_status appends exactly one
\* timeline entry tagged fulfillment_<new status> that records the note and
\* the acting user, and in every state the order's fulfillment_status is the
\* suffix of its latest fulfillment_-tagged timeline entry.
C31_TransitionsTagged ==
    /\ []StatusIsLatestTag
    /\ [][\A o \in OrderIds : FulfillmentChanged(o) => OneTaggedEntry(o)]_vars

-----------------------------------------------------------------------------
(* Order and shipment status writes under concurrent requests: the routes  *)
(* are plain def endpoints, so requests interleave between their database  *)
(* round trips. Each find_one_and_update is one atomic step.               *)

StatusRequest(kind, actor, order_id) ==
    [kind |-> kind, pc |-> "done", actor |-> actor, order_id |-> order_id,
     sid |-> 0, status_value |-> None, code |-> OK]

\* $set fulfillment_status, payment_status and $push timeline of cancel_order
push_cancelled(os, order_id, actor_id) ==
    [os EXCEPT
        ![order_id].fulfillment_status = "cancelled",
        ![order_id].payment_status = "cancelled",
        ![order_id].timeline =
            Append(@, TimelineEntry("cancelled", "Khach hang da huy don", actor_id))]

\* get_order and the status check of cancel_order
cancel_order_start(r, actor, order_id) ==
    LET code == cancel_order_code(actor, order_id) IN
    /\ r \in FreeRequestIds
    /\ requests' =
          r :> [StatusRequest("cancel_order", actor, order_id) EXCEPT
                  !.code = code,
                  !.pc = IF code = OK THEN "write" ELSE "done"] @@ requests
    /\ resp' = IF code = OK THEN resp ELSE Resp("cancel_order", actor, order_id, code)
    /\ UNCHANGED <<chatVars, shopVars, catalogVars, payVars, users, orders, shipments,
                   notifications, prefs, password_reset_tokens, clock>>

\* find_one_and_update({"_id": ..., "buyer_id": ...}) of cancel_order
cancel_order_write(r) ==
    /\ r \in RequestIds
    /\ requests[r].kind = "cancel_order"
    /\ requests[r].pc = "write"
    /\ orders' = push_cancelled(orders, requests[r].order_id, requests[r].actor)
    /\ requests' = [requests EXCEPT ![r].pc = "done"]
    /\ resp' = Resp("cancel_order", requests[r].actor, requests[r].order_id, OK)
    /\ UNCHANGED <<chatVars, shopVars, catalogVars, payVars, users, shipments,
                   notifications, prefs, password_reset_tokens, clock>>

set_shipment_status_mutant(ss, sid, status_value, note) ==
    [ss EXCEPT
        ![sid].status = status_value,
        ![sid].status_history =
            [@ EXCEPT ![Len(@)] = HistoryEntry(status_value, note, None)]]
\* find_one_and_update({"_id": ...}, $set status, $push status_history)
set_shipment_status(ss, sid, status_value, note) ==
    [ss EXCEPT
        ![sid].status = status_value,
        ![sid].status_history = Append(@, HistoryEntry(status_value, note, None))]

\* the route's checks, get_shipment_by_order and find_one({"tracking_number": ...})
update_shipment_status_start(r, actor, order_id, status_value) ==
    LET code == update_shipment_status_manual_code(actor, order_id)
        tracking == shipments[get_shipment_by_order(order_id)].tracking_number
        found == ShipmentsTracked(tracking)
    IN  /\ r \in FreeRequestIds
        /\ requests' =
              r :> [StatusRequest("update_shipment_status", actor, order_id) EXCEPT
                      !.code = code,
                      !.pc = IF code = OK THEN "write" ELSE "done",
                      !.status_value = status_value,
                      !.sid = IF code = OK
                              THEN CHOOSE i \in found : \A j \in found : i <= j
                              ELSE 0] @@ requests
        /\ resp' = IF code = OK THEN resp
                   ELSE Resp("update_shipment_status_manual", actor, order_id, code)
        /\ UNCHANGED <<chatVars, shopVars, catalogVars, payVars, users, orders, shipments,
                       notifications, prefs, password_reset_tokens, clock>>

\* find_one_and_update of update_shipment_status
update_shipment_status_write(r) ==
    /\ r \in RequestIds
    /\ requests[r].kind = "update_shipment_status"
    /\ requests[r].pc = "write"
    /\ \E note \in ShippingNoteInputs :
          shipments' = set_shipment_status(shipments, requests[r].sid,
                                           requests[r].status_value, note)
    /\ requests' = [requests EXCEPT ![r].pc = "update_order"]
    /\ UNCHANGED <<chatVars, shopVars, catalogVars, payVars, users, orders, notifications,
                   prefs, password_reset_tokens, clock, resp>>

\* the mapped update_order_fulfillment_status, the notifications and the response
update_shipment_status_finish(r) ==
    LET order_id == shipments[requests[r].sid].order_id
        status_value == requests[r].status_value
        order_status == status_mapping(status_value)
        toBuyer == create_notification(notifications, orders[order_id].buyer_id,
                                       "shipment_update", order_id)
    IN
    /\ r \in RequestIds
    /\ requests[r].kind = "update_shipment_status"
    /\ requests[r].pc = "update_order"
    /\ orders' =
        IF order_status # None
        THEN update_order_fulfillment_status(
                 orders, order_id, order_status,
                 "Shipment status: " \o status_value, None)
        ELSE orders
    /\ notifications' =
        IF status_value \in {"cancelled", "returned"}
        THEN create_notification(toBuyer, orders[order_id].seller_id,
                                 "shipment_update", order_id)
        ELSE toBuyer
    /\ requests' = [requests EXCEPT ![r].pc = "done"]
    /\ resp' = Resp("update_shipment_status_manual", requests[r].actor,
                    requests[r].order_id, OK)
    /\ UNCHANGED <<chatVars, shopVars, catalogVars, payVars, users, shipments, prefs,
                   password_reset_tokens, clock>>

\* statuses the concurrent PATCH requests carry: one outside status_mapping, one in it
RaceStatusInputs == {"picked_up", "delivered"}

NextStatusRace ==
    \/ \E r \in FreeRequestIds, o \in OrderIds : cancel_order_start(r, "b1", o)
    \/ \E r \in RequestIds : cancel_order_write(r)
    \/ \E r \in FreeRequestIds, a \in {"s1"}, o \in OrderIds, s \in RaceStatusInputs :
          update_shipment_status_start(r, a, o, s)
    \/ \E r \in RequestIds : update_shipment_status_write(r)
    \/ \E r \in RequestIds : update_shipment_status_finish(r)
    \/ \E a \in {"s1"}, o \in OrderIds : seller_ready_to_ship(a, o)
    \/ \E a \in {"s1"}, o \in OrderIds : create_shipment(a, o)

SpecStatusRace == InitOrders /\ [][NextStatusRace]_vars

IsPrefix(s, t) == Len(s) <= Len(t) /\ SubSeq(t, 1, Len(s)) = s

\* the request whose write to the orders collection completes in this step
OrderWriteBy(r) ==
    /\ requests[r].pc \in {"write", "update_order"}
    /\ requests'[r].pc = "done"
    /\ requests[r].kind = "update_shipment_status"
          => status_mapping(requests[r].status_value) # None

\* the request whose write to the shipments collection completes in this step
ShipmentWriteBy(r) ==
    /\ requests[r].kind = "update_shipment_status"
    /\ requests[r].pc = "write"
    /\ requests'[r].pc = "update_order"

\* C32: the timeline of every order and the status_history of every shipment only
\* ever grow at the end, and each completed write of a request in flight adds
\* exactly one entry to what the other requests have appended meanwhile.
C32_AppendOnly ==
    [][/\ \A o \in OrderIds : IsPrefix(orders[o].timeline, orders'[o].timeline)
       /\ \A s \in ShipmentIds :
             IsPrefix(shipments[s].status_history, shipments'[s].status_history)
       /\ \A r \in RequestIds :
             /\ OrderWriteBy(r) =>
                   Len(orders'[requests[r].order_id].timeline)
                      = Len(orders[requests[r].order_id].timeline) + 1
             /\ ShipmentWriteBy(r) =>
                   Len(shipments'[requests[r].sid].status_history)
                      = Len(shipments[requests[r].sid].status_history) + 1]_vars

\* two requests wrote to the same shipment and the same order while both were in flight
C32_Witness ==
    \E r1, r2 \in RequestIds :
        /\ r1 # r2
        /\ requests[r1].kind = "update_shipment_status"
        /\ requests[r2].kind = "cancel_order"
        /\ requests[r1].pc = "done" /\ requests[r1].code = OK
        /\ requests[r2].pc = "done" /\ requests[r2].code = OK
        /\ \E s \in ShipmentIds : Len(shipments[s].status_history) = 3
        /\ \E o \in OrderIds : Len(orders[o].timeline) >= 4

\* the step in which the write of cancel request r lands
CancelWriteBy(r) ==
    /\ requests[r].kind = "cancel_order"
    /\ requests[r].pc = "write"
    /\ requests'[r].pc = "done"

\* C36: the write of a buyer cancel never lands on an order whose fulfillment_status
\* has meanwhile left pending_confirmation and processing.
C36_CancelRespectsStatus ==
    [][\A r \in RequestIds :
          CancelWriteBy(r) =>
             orders[requests[r].order_id].fulfillment_status \in CancellableStatuses]_vars

\* C39: the status of every shipment is the status of the last entry of its
\* status_history, which is never empty and starts with label_created.
C39_StatusIsLastHistory ==
    \A s \in ShipmentIds :
        LET history == shipments[s].status_history IN
        /\ history # <<>>
        /\ history[1].status = "label_created"
        /\ shipments[s].status = history[Len(history)].status

\* two PATCH requests were in flight together and both have written the shipment
C39_Witness ==
    /\ C39_StatusIsLastHistory
    /\ \E r1, r2 \in RequestIds, s \in ShipmentIds :
          /\ r1 < r2
          /\ requests[r1].kind = "update_shipment_status"
          /\ requests[r2].kind = "update_shipment_status"
          /\ requests[r1].pc = "update_order"
          /\ requests[r2].pc = "update_order"
          /\ requests[r1].status_value # requests[r2].status_value
          /\ requests[r1].sid = s /\ requests[r2].sid = s
          /\ Len(shipments[s].status_history) = 3

-----------------------------------------------------------------------------
(* Payment webhooks delivered more than once *)

\* the attempt and its order already show the outcome a webhook carries
AlreadyProcessed(pid, success) ==
    /\ payments[pid].status = webhook_status(success)
    /\ orders[payments[pid].order_id].payment_status = webhook_status(success)

\* the notifications of type payment_<status> about order_id
PaymentNotices(ns, order_id, status) ==
    {i \in DOMAIN ns : ns[i].type = "payment_" \o status /\ ns[i].order_id = order_id}

\* what a replayed webhook leaves behind: the same statuses, one more
\* payment_<status> entry at the end of the timeline, and new notifications
Replayed(pid, success) ==
    LET order_id == payments[pid].order_id
        status == webhook_status(success)
    IN  /\ payments'[pid].status = status
        /\ orders'[order_id].payment_status = status
        /\ Len(orders'[order_id].timeline) = Len(orders[order_id].timeline) + 1
        /\ IsPrefix(orders[order_id].timeline, orders'[order_id].timeline)
        /\ orders'[order_id].timeline[Len(orders'[order_id].timeline)].status
              = "payment_" \o status
        /\ Cardinality(PaymentNotices(notifications', order_id, status))
              > Cardinality(PaymentNotices(notifications, order_id, status))

C37_PaidIsFinal ==
    [][resp'.op \in {"handle_momo_webhook", "handle_vnpay_webhook"} =>
          /\ \A o \in OrderIds :
                orders[o].payment_status = "paid" =>
                   orders'[o].payment_status # "failed"
          /\ \A p \in PaymentIds :
                payments[p].status = "expired" => payments'[p].status # "failed"]_vars

-----------------------------------------------------------------------------
(* Cart lines *)

\* one line per product and variant, positive quantities, distinct item ids
CartWellFormed ==
    \A u \in DOMAIN carts :
        LET items == carts[u].items IN
        /\ \A i, j \in DOMAIN items :
              /\ items[i].product_id = items[j].product_id
              /\ items[i].variant_id = items[j].variant_id
              => i = j
        /\ \A i \in DOMAIN items : items[i].quantity > 0
        /\ \A i, j \in DOMAIN items : items[i].item_id = items[j].item_id => i = j

\* add_item of q units of a pair the cart already holds adds q to that line
\* and leaves the other lines alone
AddsToLine(product_id, variant_id, quantity) ==
    LET items == cart_items(carts, CartBuyer)
        idx == find_item_index(items, product_id, variant_id)
        after == carts'[CartBuyer].items
    IN  /\ resp'.op = "add_item"
        /\ resp'.code = OK
        /\ idx > 0
        /\ add_item(CartBuyer, product_id, variant_id, quantity)
        => /\ Len(after) = Len(items)
           /\ after[idx].quantity = items[idx].quantity + quantity
           /\ after[idx].item_id = items[idx].item_id
           /\ \A i \in DOMAIN items : i # idx => after[i] = items[i]

\* C34: whatever add_item, update_item_quantity, remove_item and clear_cart
\* requests a buyer makes one after another, the cart has at most one line per
\* product and variant, every quantity is positive, the item ids differ, and
\* adding a pair already in the cart increases the quantity of its line.
C34_CartInvariants ==
    /\ []CartWellFormed
    /\ [][\A p \in ProductIds, v \in VariantInputs, q \in QuantityInputs :
             AddsToLine(p, v, q)]_vars

\* a second add_item of a pair has raised its line to two units beside another line
C34_Witness ==
    /\ resp.op = "add_item"
    /\ resp.code = OK
    /\ CartBuyer \in DOMAIN carts
    /\ Len(carts[CartBuyer].items) = 2
    /\ \E i \in DOMAIN carts[CartBuyer].items :
          /\ carts[CartBuyer].items[i].quantity = 2
          /\ item_seq = 2
          /\ i = 1

-----------------------------------------------------------------------------
(* Embedded lists under concurrent requests: add_item and adjust_inventory *)
(* read a document, change its list in memory and $set the whole list.     *)

ListRequest(kind, actor, product_id, variant_id, amount) ==
    [kind |-> kind, pc |-> "done", actor |-> actor, product_id |-> product_id,
     variant_id |-> variant_id, amount |-> amount, variants |-> NoVariants,
     items |-> <<>>, code |-> OK]

\* the variants list adjust_inventory builds from the product it has read
adjusted_variants(variants, variant_id, delta) ==
    [variants EXCEPT ![variant_id].stock_quantity = @ + delta]

\* an update whose filter matches no document
set_variants_mutant(ps, product_id, variants) == ps
\* update_one({"_id": ...}, {"$set": {"variants": variants}})
set_variants(ps, product_id, variants) ==
    [ps EXCEPT ![product_id].variants = variants]

\* find_one of the product, the checks and the new list
adjust_inventory_start(r, actor, product_id, variant_id, delta) ==
    LET code == adjust_inventory_code(actor, product_id, variant_id, delta) IN
    /\ r \in FreeRequestIds
    /\ code = OK => stock_quantity(product_id, variant_id) + delta <= MaxStock
    /\ requests' =
          r :> [ListRequest("adjust_inventory", actor, product_id, variant_id, delta)
                  EXCEPT !.code = code,
                         !.pc = IF code = OK THEN "write" ELSE "done",
                         !.variants =
                            IF code = OK
                            THEN adjusted_variants(products[product_id].variants,
                                                   variant_id, delta)
                            ELSE NoVariants] @@ requests
    /\ resp' = IF code = OK THEN resp
               ELSE Resp("adjust_inventory", actor, product_id, code)
    /\ UNCHANGED <<chatVars, shopVars, catalogVars, payVars, users, orders, shipments,
                   notifications, prefs, password_reset_tokens, clock>>

\* update_one of the product
adjust_inventory_write(r) ==
    /\ r \in RequestIds
    /\ requests[r].kind = "adjust_inventory"
    /\ requests[r].pc = "write"
    /\ products' = set_variants(products, requests[r].product_id, requests[r].variants)
    /\ requests' = [requests EXCEPT ![r].pc = "log"]
    /\ UNCHANGED <<chatVars, shopVars, payVars, users, orders, shipments, notifications,
                   prefs, password_reset_tokens, clock, resp, addresses, inventory_logs,
                   carts, item_seq>>

\* insert_one of the log and the response
adjust_inventory_log(r) ==
    /\ r \in RequestIds
    /\ requests[r].kind = "adjust_inventory"
    /\ requests[r].pc = "log"
    /\ inventory_logs' =
          Append(inventory_logs,
                 InventoryLog(requests[r].product_id, requests[r].variant_id,
                              requests[r].amount, requests[r].actor))
    /\ requests' = [requests EXCEPT ![r].pc = "done"]
    /\ resp' = Resp("adjust_inventory", requests[r].actor, requests[r].product_id, OK)
    /\ UNCHANGED <<chatVars, shopVars, payVars, users, orders, shipments, notifications,
                   prefs, password_reset_tokens, clock, addresses, products, carts,
                   item_seq>>

\* the items list add_item builds from the cart it has read
added_items(items, product_id, variant_id, quantity, item_id) ==
    LET idx == find_item_index(items, product_id, variant_id)
        price == unit_price(product_id, variant_id)
    IN  IF idx > 0
        THEN [items EXCEPT ![idx] = [@ EXCEPT !.quantity = @ + quantity,
                                              !.price = price]]
        ELSE Append(items, [item_id |-> item_id,
                            product_id |-> product_id,
                            variant_id |-> variant_id,
                            quantity |-> quantity,
                            price |-> price])

\* _ensure_cart, get_product_with_variant, the checks and the new list
add_item_start(r, actor, product_id, variant_id, quantity) ==
    LET code == add_item_code(actor, product_id, variant_id, quantity)
        cs == ensure_cart(carts, actor)
        items == cart_items(carts, actor)
        fresh == code = OK /\ find_item_index(items, product_id, variant_id) = 0
    IN  /\ r \in FreeRequestIds
        /\ fresh => item_seq < MaxItemIds
        /\ code = OK /\ ~fresh =>
              items[find_item_index(items, product_id, variant_id)].quantity + quantity
                 <= MaxQuantity
        /\ requests' =
              r :> [ListRequest("add_item", actor, product_id, variant_id, quantity)
                      EXCEPT !.code = code,
                             !.pc = IF code = OK THEN "write" ELSE "done",
                             !.items =
                                IF code = OK
                                THEN added_items(items, product_id, variant_id,
                                                 quantity, item_seq + 1)
                                ELSE <<>>] @@ requests
        /\ item_seq' = IF fresh THEN item_seq + 1 ELSE item_seq
        /\ carts' = IF code \in {Unauthorized, Forbidden, Unprocessable} THEN carts ELSE cs
        /\ resp' = IF code = OK THEN resp ELSE Resp("add_item", actor, 0, code)
        /\ UNCHANGED <<chatVars, shopVars, payVars, users, orders, shipments,
                       notifications, prefs, password_reset_tokens, clock, addresses,
                       products, inventory_logs>>

\* update_one({"_id": cart["_id"]}, {"$set": {"items": items}})
add_item_write(r) ==
    /\ r \in RequestIds
    /\ requests[r].kind = "add_item"
    /\ requests[r].pc = "write"
    /\ carts' = [carts EXCEPT ![requests[r].actor].items = requests[r].items]
    /\ requests' = [requests EXCEPT ![r].pc = "done"]
    /\ resp' = Resp("add_item", requests[r].actor, 0, OK)
    /\ UNCHANGED <<chatVars, shopVars, payVars, users, orders, shipments, notifications,
                   prefs, password_reset_tokens, clock, addresses, products,
                   inventory_logs, item_seq>>

NextListRace ==
    \/ \E r \in FreeRequestIds, a \in {"s1", "s2"}, v \in {"v1", "v2"}, d \in {-1, 1} :
          adjust_inventory_start(r, a, "p1", v, d)
    \/ \E r \in RequestIds : adjust_inventory_write(r)
    \/ \E r \in RequestIds : adjust_inventory_log(r)
    \/ \E r \in FreeRequestIds, p \in ProductIds, q \in {0, 1} :
          add_item_start(r, CartBuyer, p, IF p = "p1" THEN "v1" ELSE None, q)
    \/ \E r \in RequestIds : add_item_write(r)

SpecListRace == InitInv /\ [][NextListRace]_vars

\* the adjust_inventory requests that have written their log
Logged == {r \in RequestIds : /\ requests[r].kind = "adjust_inventory"
                              /\ requests[r].pc = "done"
                              /\ requests[r].code = OK}

\* C35: the list a request writes replaces the stored list whole, whatever other
\* requests have written since it read the document, so a change made in between
\* is lost; every adjust_inventory that completes still writes its InventoryLog.
C35_LastWriterWins ==
    /\ [](Len(inventory_logs) = Cardinality(Logged))
    /\ [][\A r \in RequestIds :
             /\ requests[r].pc = "write" /\ requests'[r].pc # "write" =>
                   IF requests[r].kind = "adjust_inventory"
                   THEN products'[requests[r].product_id].variants = requests[r].variants
                   ELSE carts'[requests[r].actor].items = requests[r].items]_vars

\* two add_item requests for different products have both completed and the
\* cart holds the line of one only
CartLineLost ==
    \E r1, r2 \in RequestIds :
        /\ requests[r1].kind = "add_item" /\ requests[r2].kind = "add_item"
        /\ requests[r1].pc = "done" /\ requests[r2].pc = "done"
        /\ requests[r1].code = OK /\ requests[r2].code = OK
        /\ requests[r1].product_id # requests[r2].product_id
        /\ Cardinality(RequestIds) = 2
        /\ Len(carts[CartBuyer].items) = 1

\* two adjustments d1 and d2 of the same stock s have both completed and logged,
\* and the stock is s + d2, not s + d1 + d2
C35_Witness ==
    \E r1, r2 \in Logged :
        LET v == requests[r1].variant_id
            s == requests[r1].variants[v].stock_quantity - requests[r1].amount
        IN  /\ r1 # r2
            /\ requests[r2].variant_id = v
            /\ requests[r2].variants[v].stock_quantity - requests[r2].amount = s
            /\ Cardinality(RequestIds) = 2
            /\ Len(inventory_logs) = 2
            /\ stock_quantity("p1", v) = s + requests[r2].amount
            /\ stock_quantity("p1", v) # s + requests[r1].amount + requests[r2].amount

-----------------------------------------------------------------------------
(* Specification of checkout beside inventory adjustments: the buyer fills *)
(* the cart and checks out while the seller of p1 takes stock away.        *)

NextCheckout ==
    \/ \E p \in ProductIds, v \in VariantInputs, q \in QuantityInputs :
          add_item(CartBuyer, p, v, q)
    \/ adjust_inventory("s1", "p1", "v1", -1)
    \/ \E d \in AddressIdInputs : create_order_from_cart(CartBuyer, d)

SpecCheckout == InitCart /\ [][NextCheckout]_vars

\* what create_order_from_cart asks of the buyer's cart: an address of the
\* buyer, at least one line, every product available, one seller
Orderable(actor, address_id) ==
    LET items == cart_items(carts, actor) IN
    /\ require_buyer(actor) = OK
    /\ items # <<>>
    /\ get_address_by_id_code(actor, address_id) = OK
    /\ \A i \in DOMAIN items :
          get_product_with_variant_code(items[i].product_id, items[i].variant_id) = OK
    /\ \A i, j \in DOMAIN items :
          products[items[i].product_id].seller_id = products[items[j].product_id].seller_id

\* the lines of stored orders that ask for more than the variant's stock
Oversold ==
    {<<o, i>> \in OrderIds \X {1, 2} :
        /\ i \in DOMAIN orders[o].items
        /\ orders[o].items[i].variant_id # None
        /\ orders[o].items[i].quantity
              > stock_quantity(orders[o].items[i].product_id,
                               orders[o].items[i].variant_id)}

\* C38: a checkout writes no product and no InventoryLog, and it succeeds on
\* every orderable cart without comparing quantities with the stock.
C38_CheckoutFrame ==
    [][resp'.op = "create_order_from_cart" =>
          /\ products' = products
          /\ inventory_logs' = inventory_logs
          /\ \A d \in AddressIdInputs :
                Orderable(CartBuyer, d) /\ create_order_from_cart(CartBuyer, d)
                   => resp'.code = OK]_vars

\* a checkout has just stored an order for more units than the variant has
C38_Witness ==
    /\ resp.op = "create_order_from_cart"
    /\ resp.code = OK
    /\ Oversold # {}
    /\ inventory_logs # <<>>

-----------------------------------------------------------------------------
(* Room membership *)

Membership(sid, thread_id) ==
    [namespace |-> ChatNamespaceName, room |-> thread_room(thread_id), sid |-> sid]

\* a connection enters a room only through its own chat:join that passed the
\* access check
EnteredByJoin ==
    \A m \in rooms' \ rooms :
        /\ resp'.op = "on_chat_join"
        /\ resp'.code = OK
        /\ m = Membership(resp'.actor, resp'.target)
        /\ session_access_code(resp'.actor, resp'.target) = OK

\* chat:leave takes the connection out of the room it names
LeftByLeave ==
    resp'.op = "on_chat_leave" /\ resp'.target # ""
       => Membership(resp'.actor, resp'.target) \notin rooms'

\* a chat:message goes to connections that are in the room of its thread
DeliveredToMembers ==
    \A i \in DOMAIN events' :
        events'[i].event = "chat:message"
           => \E m \in rooms : /\ m.sid = events'[i].sid
                               /\ m.room = thread_room(events'[i].thread_id)

\* C40: a chat:join that fails leaves the rooms as they were, a connection is
\* in a thread's room only after a chat:join of its own that passed the access
\* check and until it leaves, and chat:message goes to no connection outside
\* the room.
C40_JoinGatesRoom ==
    [][/\ resp'.op = "on_chat_join" /\ resp'.code # OK => rooms' = rooms
       /\ EnteredByJoin
       /\ LeftByLeave
       /\ DeliveredToMembers]_vars

\* a connection was refused the room of a thread that another connection is in
C40_Witness ==
    /\ resp.op = "on_chat_join"
    /\ resp.code = Forbidden
    /\ resp.actor \in DOMAIN sessions
    /\ Membership(resp.actor, resp.target) \notin rooms
    /\ \E sid \in Sids \ {resp.actor} : Membership(sid, resp.target) \in rooms
    /\ events = <<Event(resp.actor, "chat:error", resp.target, error_message(Forbidden))>>


====
